---- MODULE Spec2Model ----
(***************************************************************************)
(* Register-level protocol engine of the LT8722 driver (LT8722SPI.cpp):    *)
(* frame construction, acknowledgment / CRC validation, read-modify-write  *)
(* of bit ranges, output-voltage conversion and ramp; and the controller   *)
(* built on it (LT8722.cpp).  Bytes are naturals 0..255; C arrays indexed  *)
(* 0..n-1 are tuples indexed 1..n (C index k is tuple index k+1).          *)
(***************************************************************************)
EXTENDS Integers, Naturals, Sequences, FiniteSets, TLC

VARIABLES pc, cs, op, devBefore, devAfter, sub, result, bus, waits, regs, env, loc,
          samples, history, callers

vars == <<pc, cs, op, devBefore, devAfter, sub, result, bus, waits, regs, env, loc,
         samples, history, callers>>

(***************************************************************************)
(* Bounds of the enumeration.                                              *)
(***************************************************************************)
\* number of distinct noise bytes the bus may deliver at a frame position
MaxNoise == 2
\* number of distinct register contents / payload words that are enumerated
MaxWords == 3
\* number of distinct values handed to changeBitsInRegister
MaxValues == 4
\* passes of the ramp loop that are followed
MaxPasses == 126
\* latest transaction at which a burst may start in the short operations
MaxFault == 4
\* longest burst of damaged transactions
MaxBurst == 1
\* calls made one after the other on a device that keeps its registers
MaxCalls == 2

(***************************************************************************)
(* Byte arithmetic.                                                        *)
(***************************************************************************)
Byte == 0..255

BitOf(x, i) == (x \div (2^i)) % 2

\* a ^ b on 4-bit operands, tabulated
Xor4Table ==
    [a \in 0..15 |-> [b \in 0..15 |->
        ((BitOf(a,0) + BitOf(b,0)) % 2)
      + ((BitOf(a,1) + BitOf(b,1)) % 2) * 2
      + ((BitOf(a,2) + BitOf(b,2)) % 2) * 4
      + ((BitOf(a,3) + BitOf(b,3)) % 2) * 8]]

\* a ^ b on 8-bit operands
Xor8(a, b) == Xor4Table[a \div 16][b \div 16] * 16 + Xor4Table[a % 16][b % 16]

\* (int8_t)x : the value of the byte as a signed 8-bit integer
ToInt8(x) == IF x % 256 >= 128 THEN (x % 256) - 256 ELSE x % 256

\* conversion of an int to the uint8_t parameter of SPIClass::transfer
ToUint8(x) == x % 256

\* spi->transfer((int8_t)b) : the byte that is put on the bus
Tx(b) == ToUint8(ToInt8(b))

\* b |= (1 << k) on a uint8_t
OrBit(b, k) == IF BitOf(b, k) = 1 THEN b ELSE b + 2^k

\* b &= ~(1 << k) on a uint8_t
ClearBit(b, k) == IF BitOf(b, k) = 1 THEN b - 2^k ELSE b

(***************************************************************************)
(* CRC8 engine (CRC8.h).  Table driven, generator x^8 + x^2 + x + 1,       *)
(* running value starts at 0x00, running = table[running XOR byte].        *)
(***************************************************************************)
RECURSIVE CrcShift(_, _)
CrcShift(c, n) ==
    IF n = 0 THEN c
    ELSE CrcShift(IF c >= 128 THEN Xor8((c * 2) % 256, 7) ELSE (c * 2) % 256, n - 1)

CRC8Table == [i \in Byte |-> CrcShift(i, 8)]

RECURSIVE crc8Fold(_, _)
crc8Fold(running, bytes) ==
    IF bytes = <<>> THEN running
    ELSE crc8Fold(CRC8Table[Xor8(running, Head(bytes))], Tail(bytes))

crc8(bytes) == crc8Fold(0, bytes)

getCRC2(packet) == crc8(<<packet[1], packet[2]>>)

getCRC6(packet, data) == crc8(<<packet[1], packet[2], data[1], data[2], data[3], data[4]>>)

checkCRC(status, data, n, crc) == crc8(SubSeq(status \o data, 1, n)) = crc

(***************************************************************************)
(* Bus events: chip-select edges and full-duplex byte exchanges.           *)
(***************************************************************************)
LOW == 0
HIGH == 1

CsWrite(level) == [ev |-> "cs", out |-> level, in |-> 0]

Transfer(out, in) == [ev |-> "xfer", out |-> out, in |-> in]

\* level of the chip-select pin after the events of a log
RECURSIVE PinAfter(_, _)
PinAfter(level, log) ==
    IF log = <<>> THEN level
    ELSE PinAfter(IF Head(log).ev = "cs" THEN Head(log).out ELSE level, Tail(log))

\* variant: address = address & 0xFE
AddressByte_NoShift(address) == address - (address % 2)

\* address = (address << 1) & 0xFE, stored back into a uint8_t
AddressByte(address) == ((address * 2) % 256) - (((address * 2) % 256) % 2)

ACK == 165

(***************************************************************************)
(* readStatus                                                              *)
(***************************************************************************)
readStatusPacket == <<240, AddressByte(1)>>

readStatusSent ==
    <<Tx(readStatusPacket[1]), Tx(readStatusPacket[2]), Tx(getCRC2(readStatusPacket)), Tx(0)>>

readStatusBus(rx) ==
    LET sent == readStatusSent
    IN  <<CsWrite(LOW),
          Transfer(sent[1], rx[1]),
          Transfer(sent[2], rx[2]),
          Transfer(sent[3], rx[3]),
          Transfer(sent[4], rx[4]),
          CsWrite(HIGH)>>

readStatusCapture(rx) ==
    [status |-> <<rx[1], rx[2]>>, data |-> <<ToUint8(ToInt8(0)), ToUint8(ToInt8(0)), ToUint8(ToInt8(0)), ToUint8(ToInt8(0))>>,
     crc |-> rx[3], ack |-> rx[4]]

\* variant: the CRC of a status read is not checked
readStatusError_AckOnly(p) == IF p.ack = ACK THEN FALSE ELSE TRUE

readStatusError(p) ==
    IF p.ack = ACK
    THEN (IF checkCRC(p.status, p.data, 2, p.crc) THEN FALSE ELSE TRUE)
    ELSE TRUE

readStatus(rx) ==
    LET p == readStatusCapture(rx)
    IN  [pkt |-> [status |-> p.status, data |-> p.data, crc |-> p.crc, ack |-> p.ack,
                  error |-> readStatusError(p)],
         bus |-> readStatusBus(rx)]

\* sequencing of two statements: rest applied to the outcome of first
ThenDo(first, rest(_)) == CHOOSE r \in {rest(p) : p \in {first}} : TRUE

(***************************************************************************)
(* readRegister                                                            *)
(***************************************************************************)
readRegisterPacket(address) == <<244, AddressByte(address)>>

readRegisterSent(address) ==
    <<Tx(readRegisterPacket(address)[1]), Tx(readRegisterPacket(address)[2]),
      Tx(getCRC2(readRegisterPacket(address))), Tx(0), Tx(0), Tx(0), Tx(0), Tx(0)>>

\* variant: a register read answered with a wrong ack is issued a second time
readRegisterBus_Retry(address, rx) ==
    ThenDo(readRegisterSent(address), LAMBDA sent :
    ThenDo(<<CsWrite(LOW),
             Transfer(sent[1], rx[1]), Transfer(sent[2], rx[2]),
             Transfer(sent[3], rx[3]), Transfer(sent[4], rx[4]),
             Transfer(sent[5], rx[5]), Transfer(sent[6], rx[6]),
             Transfer(sent[7], rx[7]), Transfer(sent[8], rx[8]),
             CsWrite(HIGH)>>, LAMBDA frame :
    IF rx[8] = ACK THEN frame ELSE frame \o frame))

readRegisterBus(address, rx) ==
    ThenDo(readRegisterSent(address), LAMBDA sent :
        <<CsWrite(LOW),
          Transfer(sent[1], rx[1]),
          Transfer(sent[2], rx[2]),
          Transfer(sent[3], rx[3]),
          Transfer(sent[4], rx[4]),
          Transfer(sent[5], rx[5]),
          Transfer(sent[6], rx[6]),
          Transfer(sent[7], rx[7]),
          Transfer(sent[8], rx[8]),
          CsWrite(HIGH)>>)

readRegisterCapture(rx) ==
    [status |-> <<rx[1], rx[2]>>, data |-> <<rx[3], rx[4], rx[5], rx[6]>>,
     crc |-> rx[7], ack |-> rx[8]]

\* variant: the CRC of a register read is checked over the status bytes only
readRegisterError_Span2(p) ==
    IF p.ack = ACK
    THEN (IF checkCRC(p.status, p.data, 2, p.crc) THEN FALSE ELSE TRUE)
    ELSE TRUE

readRegisterError(p) ==
    IF p.ack = ACK
    THEN (IF checkCRC(p.status, p.data, 6, p.crc) THEN FALSE ELSE TRUE)
    ELSE TRUE

readRegister(address, rx) ==
    LET p == readRegisterCapture(rx)
    IN  [pkt |-> [status |-> p.status, data |-> p.data, crc |-> p.crc, ack |-> p.ack,
                  error |-> readRegisterError(p)],
         bus |-> readRegisterBus(address, rx)]

(***************************************************************************)
(* writeRegister                                                           *)
(***************************************************************************)
writeRegisterPacket(address) == <<242, AddressByte(address)>>

\* variant: the CRC of a write frame covers the two header bytes only
writeRegisterSent_HeaderCrc(address, data) ==
    <<Tx(writeRegisterPacket(address)[1]), Tx(writeRegisterPacket(address)[2]),
      Tx(data[1]), Tx(data[2]), Tx(data[3]), Tx(data[4]),
      ToUint8(getCRC2(writeRegisterPacket(address))), Tx(0)>>

writeRegisterSent(address, data) ==
    <<Tx(writeRegisterPacket(address)[1]), Tx(writeRegisterPacket(address)[2]),
      Tx(data[1]), Tx(data[2]), Tx(data[3]), Tx(data[4]),
      ToUint8(getCRC6(writeRegisterPacket(address), data)), Tx(0)>>

\* variant: chip-select is not released at the end of a write frame
writeRegisterBus_NoRelease(address, data, rx) ==
    ThenDo(writeRegisterSent(address, data), LAMBDA sent :
        <<CsWrite(LOW),
          Transfer(sent[1], rx[1]), Transfer(sent[2], rx[2]),
          Transfer(sent[3], rx[3]), Transfer(sent[4], rx[4]),
          Transfer(sent[5], rx[5]), Transfer(sent[6], rx[6]),
          Transfer(sent[7], rx[7]), Transfer(sent[8], rx[8])>>)

writeRegisterBus(address, data, rx) ==
    ThenDo(writeRegisterSent(address, data), LAMBDA sent :
        <<CsWrite(LOW),
          Transfer(sent[1], rx[1]),
          Transfer(sent[2], rx[2]),
          Transfer(sent[3], rx[3]),
          Transfer(sent[4], rx[4]),
          Transfer(sent[5], rx[5]),
          Transfer(sent[6], rx[6]),
          Transfer(sent[7], rx[7]),
          Transfer(sent[8], rx[8]),
          CsWrite(HIGH)>>)

\* variant: a write frame is captured with the layout of a read frame
writeRegisterCapture_LikeRead(rx) ==
    [status |-> <<rx[1], rx[2]>>, data |-> <<rx[3], rx[4], rx[5], rx[6]>>,
     crc |-> rx[7], ack |-> rx[8]]

writeRegisterCapture(rx) ==
    [status |-> <<rx[1], rx[2]>>, data |-> <<rx[4], rx[5], rx[6], rx[7]>>,
     crc |-> rx[3], ack |-> rx[8]]

\* variant: the acknowledgment of a write is not looked at
writeRegisterError_NoAck(p) ==
    IF checkCRC(p.status, p.data, 2, p.crc) THEN FALSE ELSE TRUE

\* variant: the CRC of a write is checked over status and data bytes
writeRegisterError_Span6(p) ==
    IF p.ack = ACK
    THEN (IF checkCRC(p.status, p.data, 6, p.crc) THEN FALSE ELSE TRUE)
    ELSE TRUE

writeRegisterError(p) ==
    IF p.ack = ACK
    THEN (IF checkCRC(p.status, p.data, 2, p.crc) THEN FALSE ELSE TRUE)
    ELSE TRUE

writeRegister(address, data, rx) ==
    LET p == writeRegisterCapture(rx)
    IN  [pkt |-> [status |-> p.status, data |-> p.data, crc |-> p.crc, ack |-> p.ack,
                  error |-> writeRegisterError(p)],
         bus |-> writeRegisterBus(address, data, rx)]

(***************************************************************************)
(* changeBitsInRegister                                                    *)
(***************************************************************************)
\* the bytes of a struct dataSPI from status[0] to ack, in the order of its
\* members: data[0..3] are bytes 3..6 of it, so that data[-1] and data[-2]
\* name status[1] and status[0]
structBytes(p) == p.status \o p.data \o <<p.crc, p.ack>>

\* the struct with these bytes; an index beyond them names memory outside
\* the struct and leaves the struct as it is
structWith(p, index, byte) ==
    IF index \in 1..8
    THEN LET b == [structBytes(p) EXCEPT ![index] = byte]
         IN  [p EXCEPT !.status = <<b[1], b[2]>>, !.data = <<b[3], b[4], b[5], b[6]>>,
                       !.crc = b[7], !.ack = b[8]]
    ELSE p

\* variant: bit 0 is taken to live in data byte 0
changeBit_LittleEndian(p, startBit, i, value) ==
    LET bitPosition == (startBit + i) % 256
        byteIndex   == bitPosition \div 8
        bitOffset   == bitPosition % 8
        bitValue    == ((value \div (2^i)) % 2) = 1
    IN  IF byteIndex + 3 \notin 1..8 THEN p
        ELSE IF bitValue
        THEN structWith(p, byteIndex + 3, OrBit(structBytes(p)[byteIndex + 3], bitOffset))
        ELSE structWith(p, byteIndex + 3, ClearBit(structBytes(p)[byteIndex + 3], bitOffset))

\* variant: the byte index is bitPosition / 8 counted down from 0
changeBit_NoOffset(p, startBit, i, value) ==
    LET bitPosition == (startBit + i) % 256
        byteIndex   == 0 - (bitPosition \div 8)
        bitOffset   == bitPosition % 8
        bitValue    == ((value \div (2^i)) % 2) = 1
    IN  IF byteIndex + 3 \notin 1..8 THEN p
        ELSE IF bitValue
        THEN structWith(p, byteIndex + 3, OrBit(structBytes(p)[byteIndex + 3], bitOffset))
        ELSE structWith(p, byteIndex + 3, ClearBit(structBytes(p)[byteIndex + 3], bitOffset))

\* one pass of the loop body for loop index i, on dataPacket1 p
changeBit(p, startBit, i, value) ==
    LET bitPosition == (startBit + i) % 256
        byteIndex   == 3 - (bitPosition \div 8)
        bitOffset   == bitPosition % 8
        bitValue    == ((value \div (2^i)) % 2) = 1
    IN  IF byteIndex + 3 \notin 1..8 THEN p
        ELSE IF bitValue
        THEN structWith(p, byteIndex + 3, OrBit(structBytes(p)[byteIndex + 3], bitOffset))
        ELSE structWith(p, byteIndex + 3, ClearBit(structBytes(p)[byteIndex + 3], bitOffset))

\* the loop for (i = 0; i < numBits; i++), entered at index i
RECURSIVE changeBits(_, _, _, _, _)
changeBits(p, startBit, numBits, value, i) ==
    IF i < numBits
    THEN changeBits(changeBit(p, startBit, i, value), startBit, numBits, value, i + 1)
    ELSE p

\* variant: the outcome of the write is not folded into the result
changeBitsError_ReadOnly(p1, p2) == IF p1.ack = ACK THEN p1.error ELSE TRUE

changeBitsError(p1, p2) ==
    IF p1.ack = ACK /\ p2.ack = ACK
    THEN (IF ~(p1.error \/ p2.error) THEN FALSE ELSE TRUE)
    ELSE TRUE

\* variant: a failed read ends the call, nothing is written
changeBitsInRegister_AbortOnError(address, startBit, numBits, value, rx1, rx2) ==
    ThenDo(readRegister(address, rx1), LAMBDA r1 :
    ThenDo(changeBits(r1.pkt, startBit, numBits, value, 0), LAMBDA p1 :
    ThenDo(writeRegister(address, p1.data, rx2), LAMBDA r2 :
        IF r1.pkt.error
        THEN [pkt |-> r1.pkt, bus |-> r1.bus, sub |-> <<r1.pkt>>]
        ELSE [pkt |-> [p1 EXCEPT !.error = changeBitsError(p1, r2.pkt)],
              bus |-> r1.bus \o r2.bus,
              sub |-> <<r1.pkt, r2.pkt>>])))

changeBitsInRegister(address, startBit, numBits, value, rx1, rx2) ==
    ThenDo(readRegister(address, rx1), LAMBDA r1 :
    ThenDo(changeBits(r1.pkt, startBit, numBits, value, 0), LAMBDA p1 :
    ThenDo(writeRegister(address, p1.data, rx2), LAMBDA r2 :
        [pkt |-> [p1 EXCEPT !.error = changeBitsError(p1, r2.pkt)],
         bus |-> r1.bus \o r2.bus,
         sub |-> <<r1.pkt, r2.pkt>>])))

\* the statements of changeBitsInRegister after its read, p1 being the
\* result of the read and rx2 what arrives during the write
\* variant: the bits are changed in the word the register holds at the
\* time of the write
changeBitsAfterRead_Fresh(address, startBit, numBits, value, p1, rx2, held) ==
    ThenDo(changeBits([p1 EXCEPT !.data = held], startBit, numBits, value, 0), LAMBDA p :
    ThenDo(writeRegister(address, p.data, rx2), LAMBDA r2 :
        [pkt |-> [p EXCEPT !.error = changeBitsError(p, r2.pkt)],
         bus |-> r2.bus,
         sub |-> <<r2.pkt>>]))

\* held is what the register holds at the time of the write, which the
\* code does not look at
changeBitsAfterRead(address, startBit, numBits, value, p1, rx2, held) ==
    ThenDo(changeBits(p1, startBit, numBits, value, 0), LAMBDA p :
    ThenDo(writeRegister(address, p.data, rx2), LAMBDA r2 :
        [pkt |-> [p EXCEPT !.error = changeBitsError(p, r2.pkt)],
         bus |-> r2.bus,
         sub |-> <<r2.pkt>>]))

\* every byte index the loop computes addresses one of the four data bytes
InDataArray(startBit, numBits) ==
    \A i \in 0..(numBits - 1) : 3 - (((startBit + i) % 256) \div 8) \in 0..3

(***************************************************************************)
(* The device at the other end of the bus.  It keeps one word per          *)
(* register, stores the payload of a register-write frame and answers a    *)
(* read frame with the stored word; what arrives at the controller may     *)
(* differ from what the device sent.                                       *)
(***************************************************************************)
NoiseList == <<0, 165, 255, 90>>
NoiseBytes == {NoiseList[i] : i \in 1..MaxNoise}

WordList == <<<<0, 0, 0, 0>>, <<255, 255, 255, 255>>, <<18, 52, 86, 120>>, <<165, 90, 195, 60>>>>
KnownWords == {WordList[i] : i \in 1..MaxWords}

ValueList == <<0, 5, 15, 245, 10>>
Values == {ValueList[i] : i \in 1..MaxValues}

\* addresses handed to readRegister and writeRegister: registers of the
\* device, the largest 7-bit address, and an address above 127
Addresses == {0, 4, 7, 127, 132}
RmwAddresses == {0, 7}
StartBits == {0, 5, 7, 14, 15, 28, 31}
NumBits == 1..4

\* the outgoing bytes of the frames of a log, frame by frame
RECURSIVE FramesOf(_, _)
FramesOf(log, cur) ==
    IF log = <<>> THEN <<>>
    ELSE IF Head(log).ev = "xfer" THEN FramesOf(Tail(log), Append(cur, Head(log)))
    ELSE IF Head(log).out = HIGH THEN <<cur>> \o FramesOf(Tail(log), <<>>)
    ELSE FramesOf(Tail(log), <<>>)

Frames(log) == FramesOf(log, <<>>)

SentOf(frame) == [i \in 1..Len(frame) |-> frame[i].out]
CapturedOf(frame) == [i \in 1..Len(frame) |-> frame[i].in]

\* the register word after the device has seen one frame addressed to it
DeviceFrame(word, sent) ==
    IF Len(sent) = 8 /\ sent[1] = 242
    THEN <<sent[3], sent[4], sent[5], sent[6]>>
    ELSE word

RECURSIVE DeviceFrames(_, _)
DeviceFrames(word, frames) ==
    IF frames = <<>> THEN word
    ELSE DeviceFrames(DeviceFrame(word, SentOf(Head(frames))), Tail(frames))

\* the bytes that may arrive in the CRC and acknowledgment positions
CrcBytes(status, data) ==
    NoiseBytes \cup {crc8(status), crc8(status \o data), (crc8(status \o data) + 1) % 256}
AckBytes == NoiseBytes \cup {ACK, 0}

StatusRx ==
    UNION {{<<s[1], s[2], c, a>> : c \in CrcBytes(s, <<>>), a \in AckBytes} :
           s \in NoiseBytes \X NoiseBytes}

LongRx(statuses, datas) ==
    UNION {{<<sd[1][1], sd[1][2], sd[2][1], sd[2][2], sd[2][3], sd[2][4], c, a>> :
            c \in CrcBytes(sd[1], sd[2]), a \in AckBytes} :
           sd \in statuses \X datas}

\* noise in the four data positions of a frame
DataNoise == {<<a, b, b, a>> : a \in NoiseBytes, b \in NoiseBytes}

\* the answer to a read frame: the stored word or noise
ReadRx(stored) == LongRx(NoiseBytes \X NoiseBytes, {stored} \cup DataNoise)

\* the answer to a write frame: CRC of the status in position 3
WriteRx ==
    UNION {{<<sd[1][1], sd[1][2], c, sd[2][1], sd[2][2], sd[2][3], sd[2][4], a>> :
            c \in CrcBytes(sd[1], sd[2]), a \in AckBytes} :
           sd \in (NoiseBytes \X NoiseBytes) \X DataNoise}

Flip(word) == [word EXCEPT ![3] = Xor8(@, 128)]

\* answers during a read-modify-write: fixed status, word right or damaged
RmwReadRx(stored) == LongRx({<<0, 0>>}, {stored, Flip(stored)})
RmwWriteRx ==
    {<<0, 0, c, 0, 0, 0, 0, a>> : c \in {crc8(<<0, 0>>), (crc8(<<0, 0>>) + 1) % 256},
                                   a \in {ACK, 0}}

(***************************************************************************)
(* State machine: one action per public operation.                         *)
(***************************************************************************)
NoWord == <<0, 0, 0, 0>>

Call(name, address, data, startBit, numBits, value) ==
    [name |-> name, address |-> address, data |-> data,
     startBit |-> startBit, numBits |-> numBits, value |-> value]

\* LT8722::begin: pinMode(cs, OUTPUT); digitalWrite(cs, HIGH)
NoResult == [status |-> <<0, 0>>, data |-> NoWord, crc |-> 0, ack |-> 0, error |-> FALSE]

\* no register file, no environment and no locals: an operation of the
\* protocol layer is in progress or none is
NoRegs == [a \in 0..7 |-> NoWord]
NoEnv == [at |-> 0, len |-> 1, kind |-> "ack", conv |-> "wrap", round |-> "nearest"]
NoRamp == [start |-> 0, end |-> 0, stepSize |-> 0, duration |-> 0, currentValue |-> 0, i |-> 0,
           below |-> FALSE]
NoLoc == [ramp |-> NoRamp, line |-> 0, errors |-> <<>>]

\* no call of a sequence has been made, no caller has entered an operation
NoHistory == [calls |-> 0, clean |-> TRUE, last |-> <<>>, initial |-> NoWord, events |-> <<>>]
NoCallers == <<>>

(***************************************************************************)
(* Output-voltage arithmetic (setOutputVoltage, rampOutputVoltage).        *)
(* A voltage is an integer number of units of 1/16000 V, so that 0.01 V    *)
(* and 1.25 V are whole numbers and the quotient of a distance of q units  *)
(* by the DAC step 2.5 * 2^-25 V is the exact rational q * 524288 / 625    *)
(* = q * 838 + q * 538 / 625.  A uint32_t is a pair <<high, low>> of       *)
(* 16-bit halves.  The double arithmetic of the code agrees with the exact *)
(* arithmetic on these inputs: its rounding error is below 1e-6 steps,     *)
(* and the fraction of an inexact quotient is at least 1/625.              *)
(***************************************************************************)
\* one volt
Volt == 16000

\* the literal 1.25
MidScale == 20000

\* floor of (q / Volt) / (2.5 * pow(2, -25)) for a distance of q >= 0 units
StepsOf(q) == q * 838 + ((q * 538) \div 625)

\* the quotient is a whole number of DAC steps
WholeSteps(q) == (q * 538) % 625 = 0

\* a value 0 <= n < 2^31 as a uint32_t
Uint32(n) == <<n \div 65536, n % 65536>>

\* 4294967296 - n as a uint32_t, for 1 <= n < 2^31
Uint32Minus(n) == <<65535 - ((n - 1) \div 65536), 65535 - ((n - 1) % 65536)>>

\* what the conversion of the double 4294967296.0 to uint32_t yields: the
\* value is out of range, the behaviour is undefined; a build either
\* reduces it modulo 2^32 or saturates
Conversions == {"wrap", "saturate"}
OutOfRange(conv) == IF conv = "wrap" THEN <<0, 0>> ELSE <<65535, 65535>>

\* variant: above 1.25 the quotient is truncated before it is subtracted
registerValue_TruncateFirst(voltage, conv) ==
    IF voltage >= MidScale
    THEN LET q == voltage - MidScale
         IN  IF q = 0
             THEN OutOfRange(conv)
             ELSE Uint32Minus(StepsOf(q))
    ELSE Uint32(StepsOf(MidScale - voltage))

\* registerValue of setOutputVoltage, the double converted to uint32_t
registerValue(voltage, conv) ==
    IF voltage >= MidScale
    THEN LET q == voltage - MidScale
         IN  IF q = 0
             THEN OutOfRange(conv)
             ELSE Uint32Minus(StepsOf(q) + (IF WholeSteps(q) THEN 0 ELSE 1))
    ELSE Uint32(StepsOf(MidScale - voltage))

\* (uint8_t)(registerValue >> (i * 8))
ShiftedByte(rv, i) ==
    IF i < 2 THEN (rv[2] \div (256^i)) % 256 ELSE (rv[1] \div (256^(i - 2))) % 256

\* variant: data[i] = registerValue >> (i * 8)
registerBytes_LittleEndian(rv) == [k \in 1..4 |-> ShiftedByte(rv, k - 1)]

\* for (i = 0; i < 4; i++) data[3 - i] = registerValue >> (i * 8)
registerBytes(rv) == [k \in 1..4 |-> ShiftedByte(rv, 4 - k)]

\* LT8722::setVoltage: voltageDAC = (voltage / -16) + 1.25, for a voltage
\* that is a whole number of millivolts
voltageDAC(voltage) == ((0 - voltage) \div 16) + MidScale

(***************************************************************************)
(* A run of transactions against the device.  A trace t holds the level of *)
(* chip-select, the bus log, the results of the transactions made so far,  *)
(* the delays requested so far and the register file of the device.  The   *)
(* environment e of an operation names the transactions whose answer       *)
(* arrives damaged (a burst of e.len transactions from number e.at, none   *)
(* if e.at = 0) and the outcome of an out-of-range conversion.             *)
(***************************************************************************)
Registers == 0..7

Faults == {"ack", "crc"}

FaultOf(e, n) == IF e.at >= 1 /\ n >= e.at /\ n < e.at + e.len THEN e.kind ELSE "none"

DamagedCrc(c, fault) == IF fault = "crc" THEN (c + 1) % 256 ELSE c

DamagedAck(fault) == IF fault = "ack" THEN 0 ELSE ACK

\* what arrives during a read frame of a register holding word
AnswerRead(word, fault) ==
    <<0, 0, word[1], word[2], word[3], word[4],
      DamagedCrc(crc8(<<0, 0>> \o word), fault), DamagedAck(fault)>>

\* what arrives during a write frame
AnswerWrite(fault) ==
    <<0, 0, DamagedCrc(crc8(<<0, 0>>), fault), 0, 0, 0, 0, DamagedAck(fault)>>

RegsWith(address, word) == [a \in Registers |-> IF a = address THEN word ELSE <<0, 0, 0, 0>>]

\* the trace after a call r that addressed one register
After(t, address, r, subs) ==
    [t EXCEPT !.cs = PinAfter(@, r.bus),
              !.bus = @ \o r.bus,
              !.sub = @ \o subs,
              !.regs[address] = DeviceFrames(@, Frames(r.bus))]

busRead(t, e, address) ==
    ThenDo(readRegister(address, AnswerRead(t.regs[address], FaultOf(e, Len(t.sub) + 1))),
           LAMBDA r : [t |-> After(t, address, r, <<r.pkt>>), pkt |-> r.pkt])

busWrite(t, e, address, data) ==
    ThenDo(writeRegister(address, data, AnswerWrite(FaultOf(e, Len(t.sub) + 1))),
           LAMBDA r : [t |-> After(t, address, r, <<r.pkt>>), pkt |-> r.pkt])

busChangeBits(t, e, address, startBit, numBits, value) ==
    ThenDo(changeBitsInRegister(address, startBit, numBits, value,
                                AnswerRead(t.regs[address], FaultOf(e, Len(t.sub) + 1)),
                                AnswerWrite(FaultOf(e, Len(t.sub) + 2))),
           LAMBDA r : [t |-> After(t, address, r, r.sub), pkt |-> r.pkt])


\* delay(ms): the calling context is suspended for ms milliseconds
delay(t, ms) == [t EXCEPT !.waits = Append(@, [ms |-> ms, after |-> Len(t.sub)])]

(***************************************************************************)
(* Command register and status register (LT8722SPI.cpp).                   *)
(***************************************************************************)
ENABLE_REQ == 0
SWEN_REQ == 1
SW_FRQ_SET == 2
SW_FRQ_ADJ == 5
SYS_DC == 7
VCC_VREG == 9
SW_VC_INT == 11
SPI_RST == 14
PWR_LIM == 15
DISABLE == 0
ENABLE == 1

\* variant: every field is taken to be four bits wide
CommandBits_Nibble == [symbol \in {0, 1, 2, 5, 7, 9, 11, 14, 15} |-> 4]

\* the bit count the switch of setCommandRegister passes for each symbol
CommandBits ==
    [symbol \in {0, 1, 2, 5, 7, 9, 11, 14, 15} |->
        CASE symbol = 0 -> 1 [] symbol = 1 -> 1 [] symbol = 2 -> 3
          [] symbol = 5 -> 2 [] symbol = 7 -> 2 [] symbol = 9 -> 1
          [] symbol = 11 -> 3 [] symbol = 14 -> 1 [] symbol = 15 -> 4]

\* junk is the content of the uninitialised dataPacket of the default branch
\* variant: a symbol that is no enumerator is taken as a field of one bit
setCommandRegister_AnyBit(t, e, symbol, value, junk) ==
    IF symbol \in DOMAIN CommandBits
    THEN busChangeBits(t, e, 0, symbol, CommandBits[symbol], value)
    ELSE busChangeBits(t, e, 0, symbol, 1, value)

setCommandRegister(t, e, symbol, value, junk) ==
    IF symbol \in DOMAIN CommandBits
    THEN busChangeBits(t, e, 0, symbol, CommandBits[symbol], value)
    ELSE [t |-> t, pkt |-> [junk EXCEPT !.error = TRUE]]

\* variant: the result of setting the reset bit is folded into the result
resetRegisters_Both(t, e, junk) ==
    ThenDo(setCommandRegister(t, e, SPI_RST, ENABLE, junk), LAMBDA first :
    ThenDo(setCommandRegister(first.t, e, SPI_RST, DISABLE, junk), LAMBDA second :
    [t |-> second.t, pkt |-> [second.pkt EXCEPT !.error = @ \/ first.pkt.error]]))

resetRegisters(t, e, junk) ==
    ThenDo(setCommandRegister(t, e, SPI_RST, ENABLE, junk), LAMBDA first :
    setCommandRegister(first.t, e, SPI_RST, DISABLE, junk))

\* variant: every bit of the word is one
resetStatusRegister_Ones(t, e) == busWrite(t, e, 1, <<255, 255, 255, 255>>)

resetStatusRegister(t, e) == busWrite(t, e, 1, <<0, 0, 0, 0>>)

(***************************************************************************)
(* setOutputVoltage and rampOutputVoltage (LT8722SPI.cpp).                 *)
(***************************************************************************)
setOutputVoltage(t, e, voltage) ==
    busWrite(t, e, 4, registerBytes(registerValue(voltage, e.conv)))

Abs(x) == IF x < 0 THEN 0 - x ELSE x

\* the division of steps = fabs((end - start) / stepSize) is rounded: where
\* the quotient of the decimal operands is whole, the quotient of the doubles
\* can lie below it.  Of the operands of the model that is so for the ramps
\* between 1.0 and 1.2 by 0.1, where 1.2 and 0.1 are no binary fractions and
\* (1.2 - 1.0) / 0.1 is 1.9999999999999996; (1.25 - 2.5) / 0.01 is 125.0
\* and (1.23 - 1.27) / 0.01 is above 4
stepsBelow(start, end, stepSize) ==
    <<start, end, stepSize>> \in {<<Volt, Volt + (Volt \div 5), Volt \div 10>>,
                                   <<Volt + (Volt \div 5), Volt, Volt \div 10>>}

\* the locals of rampOutputVoltage at the head of its loop; the doubles
\* steps and delayTime are kept as the fractions they are the value of,
\* with the mark of a quotient rounded below a whole number
rampLocals(start, end, stepSize, duration) ==
    [start |-> start, end |-> end, stepSize |-> stepSize, duration |-> duration,
     currentValue |-> start, i |-> 0, below |-> stepsBelow(start, end, stepSize)]

\* steps = fabs((end - start) / stepSize) is stepsNum / stepsDen; a zero
\* denominator makes it infinite (numerator positive) or not a number
stepsNum(l) == Abs(l.end - l.start)
stepsDen(l) == Abs(l.stepSize)

\* variant: i <= steps
rampContinues_Inclusive(l) ==
    IF stepsDen(l) = 0 THEN stepsNum(l) > 0
    ELSE IF l.below THEN l.i * stepsDen(l) < stepsNum(l)
    ELSE l.i * stepsDen(l) <= stepsNum(l)

\* i <= (steps - 1), i converted to double
rampContinues(l) ==
    IF stepsDen(l) = 0 THEN stepsNum(l) > 0
    ELSE IF l.below THEN (l.i + 1) * stepsDen(l) < stepsNum(l)
    ELSE (l.i + 1) * stepsDen(l) <= stepsNum(l)

\* delay(delayTime): delayTime = duration / steps is converted to the
\* unsigned integer parameter of delay.  It is called inside the loop only,
\* where steps is infinite (delayTime is 0.0) or at least 1; with a step
\* count of zero delayTime is not finite and never handed to delay
delayArgument(l) ==
    IF stepsDen(l) = 0 \/ stepsNum(l) = 0 THEN 0
    ELSE (l.duration * stepsDen(l)) \div stepsNum(l)

\* one pass of the loop body
rampPass(t, e, l) ==
    LET currentValue == IF l.start >= l.end THEN l.currentValue - l.stepSize
                                          ELSE l.currentValue + l.stepSize
    IN  ThenDo(setOutputVoltage(t, e, currentValue), LAMBDA written :
        [t |-> delay(written.t, delayArgument(l)),
         l |-> [l EXCEPT !.currentValue = currentValue, !.i = @ + 1]])

\* variant: the command register is read
rampReturn_Command(t, e) == busRead(t, e, 0)

\* return readRegister(spi, cs, 0x4)
rampReturn(t, e) == busRead(t, e, 4)

(***************************************************************************)
(* The controller (LT8722.cpp).  Its operations return the error flag      *)
(* only: the other fields of the result are those of NoResult.             *)
(***************************************************************************)
Flag(error) == [NoResult EXCEPT !.error = error]

\* variant: switch-enable-request is set before the ramp and enable-request
\* after it
softStartLine_SwitchFirst(line, t, e, junk) ==
    CASE line = 0 -> resetRegisters(t, e, junk)
      [] line = 1 -> resetStatusRegister(t, e)
      [] line = 2 -> setCommandRegister(t, e, SWEN_REQ, ENABLE, junk)
      [] line = 3 -> setOutputVoltage(t, e, 2 * MidScale)
      [] line = 4 -> ThenDo(resetStatusRegister(t, e), LAMBDA p : [t |-> delay(p.t, 2), pkt |-> p.pkt])
      [] line = 6 -> setCommandRegister(t, e, ENABLE_REQ, ENABLE, junk)
      [] line = 7 -> ThenDo(resetStatusRegister(t, e), LAMBDA p : [t |-> delay(p.t, 2), pkt |-> p.pkt])

\* the statements of softStart before and after the ramp, by the number of
\* the dataPacket they assign
softStartLine(line, t, e, junk) ==
    CASE line = 0 -> resetRegisters(t, e, junk)
      [] line = 1 -> resetStatusRegister(t, e)
      [] line = 2 -> setCommandRegister(t, e, ENABLE_REQ, ENABLE, junk)
      [] line = 3 -> setOutputVoltage(t, e, 2 * MidScale)
      [] line = 4 -> ThenDo(resetStatusRegister(t, e), LAMBDA p : [t |-> delay(p.t, 2), pkt |-> p.pkt])
      [] line = 6 -> setCommandRegister(t, e, SWEN_REQ, ENABLE, junk)
      [] line = 7 -> ThenDo(resetStatusRegister(t, e), LAMBDA p : [t |-> delay(p.t, 2), pkt |-> p.pkt])

\* the locals of the ramp softStart calls: rampOutputVoltage(2.5, 1.25, 0.01, 20)
softStartRamp == rampLocals(2 * MidScale, MidScale, Volt \div 100, 20)

\* dataPacket0.error | ... | dataPacket7.error
softStartError(errors) == \E k \in 1..8 : errors[k]

reset(t, e, junk) ==
    ThenDo(resetRegisters(t, e, junk), LAMBDA p0 :
    ThenDo(resetStatusRegister(p0.t, e), LAMBDA p1 :
    [t |-> p1.t, pkt |-> Flag(p0.pkt.error \/ p1.pkt.error)]))

powerOff(t, e, junk) ==
    ThenDo(setCommandRegister(t, e, ENABLE_REQ, DISABLE, junk), LAMBDA p0 :
    ThenDo(setCommandRegister(p0.t, e, SWEN_REQ, DISABLE, junk), LAMBDA p1 :
    ThenDo(resetStatusRegister(p1.t, e), LAMBDA p2 :
    [t |-> p2.t, pkt |-> Flag(p0.pkt.error \/ p1.pkt.error \/ p2.pkt.error)])))

setVoltage(t, e, voltage) ==
    ThenDo(setOutputVoltage(t, e, voltageDAC(voltage)), LAMBDA p :
    [t |-> p.t, pkt |-> Flag(p.pkt.error)])

\* LT8722::begin after the pins are set up: it returns nothing
begin(t, e, junk) ==
    ThenDo(resetRegisters(t, e, junk), LAMBDA p0 :
    ThenDo(resetStatusRegister(p0.t, e), LAMBDA p1 :
    [t |-> [p1.t EXCEPT !.cs = PinAfter(HIGH, p1.t.bus)], pkt |-> NoResult]))

\* the setters of one field of the command register
commandSetter(t, e, symbol, value, junk) ==
    ThenDo(setCommandRegister(t, e, symbol, value, junk), LAMBDA p :
    [t |-> p.t, pkt |-> Flag(p.pkt.error)])

setPWMFreq(t, e, value, junk) == commandSetter(t, e, SW_FRQ_SET, value, junk)
setPWMAdjust(t, e, value, junk) == commandSetter(t, e, SW_FRQ_ADJ, value, junk)
setPWMDutyCycle(t, e, value, junk) == commandSetter(t, e, SYS_DC, value, junk)
setLDOVoltage(t, e, value, junk) == commandSetter(t, e, VCC_VREG, value, junk)
setPeakInductor(t, e, value, junk) == commandSetter(t, e, SW_VC_INT, value, junk)
setPowerLimit(t, e, value, junk) == commandSetter(t, e, PWR_LIM, value, junk)

(***************************************************************************)
(* Current limits.  A current is a whole number of milliamperes, so that   *)
(* (limit - 6.8) / 0.01328 is the exact rational (limit - 6800) * 25 / 332.*)
(* The code evaluates the quotient in floating point, whose format depends *)
(* on the build (64 bits on most targets, 32 bits on 8-bit AVR); the       *)
(* result differs from the exact quotient by a rounding error, which       *)
(* changes its integer part only where the exact quotient is a whole       *)
(* number: there the computed quotient is that number or lies just below   *)
(* it (in 64-bit arithmetic 0.332 / 0.01328 gives 24.99999999999999).      *)
(***************************************************************************)
Roundings == {"nearest", "below"}

\* milliamperes in 6.8 A
FullScale == 6800

\* conversion of the quotient num / 332 to uint16_t: the fraction is
\* discarded; a value that does not fit has no defined result
toUint16(num, e) ==
    LET t == Abs(num) \div 332
    IN  IF num < 0
        THEN (IF t = 0 THEN 0
              ELSE IF e.conv = "wrap" THEN (65536 - (t % 65536)) % 65536 ELSE 0)
        ELSE IF t > 65535
        THEN (IF e.conv = "wrap" THEN t % 65536 ELSE 65535)
        ELSE IF num % 332 = 0 /\ t > 0 /\ e.round = "below" THEN t - 1
        ELSE t

\* data[2] = currentLimit >> 8; data[3] = currentLimit
currentLimitBytes(code) == <<0, 0, code \div 256, code % 256>>

\* uint16_t currentLimit = -((limit - 6.8) / 0.01328)
setPositiveCurrentLimit(t, e, limit) ==
    ThenDo(busWrite(t, e, 3, currentLimitBytes(toUint16(0 - ((limit - FullScale) * 25), e))),
           LAMBDA p : [t |-> p.t, pkt |-> Flag(p.pkt.error)])

\* uint16_t currentLimit = -(-limit / 0.01328)
setNegativeCurrentLimit(t, e, limit) ==
    ThenDo(busWrite(t, e, 2, currentLimitBytes(toUint16(0 - ((0 - limit) * 25), e))),
           LAMBDA p : [t |-> p.t, pkt |-> Flag(p.pkt.error)])

\* variant: the complement is not masked
negativeLimit_Unmasked(limit) == 255 - limit

\* ((uint8_t) ~limit) & 0x0F
negativeLimit(limit) == (255 - limit) % 16

setPositiveVoltageLimit(t, e, limit) ==
    ThenDo(busWrite(t, e, 5, <<0, 0, 0, limit>>), LAMBDA p :
    [t |-> p.t, pkt |-> Flag(p.pkt.error)])

setNegativeVoltageLimit(t, e, limit) ==
    ThenDo(busWrite(t, e, 6, <<0, 0, 0, negativeLimit(limit)>>), LAMBDA p :
    [t |-> p.t, pkt |-> Flag(p.pkt.error)])

(***************************************************************************)
(* Analog monitor (LT8722SPI.cpp, LT8722.cpp).  A reading of the analog    *)
(* input is a whole number of millivolts; the double readAnalogOutput      *)
(* returns is kept as the fraction <<numerator, denominator>> it is the    *)
(* value of.                                                               *)
(***************************************************************************)
ANALOG_VOLTAGE_OUTPUT == 3
ANALOG_CURRENT_OUTPUT == 4
ANALOG_TEMPERATURE == 8

enableAnalogOutput(t, e) == busChangeBits(t, e, 7, 6, 1, 1)

\* variant: the enable bit is written as 1
disableAnalogOutput_Set(t, e) == busChangeBits(t, e, 7, 6, 1, 1)

disableAnalogOutput(t, e) == busChangeBits(t, e, 7, 6, 1, 0)

\* variant: the value is written to the enable bit
setAnalogOutput_EnableBit(t, e, value) == busChangeBits(t, e, 7, 6, 1, value)

setAnalogOutput(t, e, value) == busChangeBits(t, e, 7, 0, 4, value)

\* analogReadMilliVolts(_analogInput) returns mv; the sample is taken with
\* the select code the device holds in AMUX[3:0] and the enable bit it
\* holds in bit 6 at that time
analogReadMilliVolts(t, mv) ==
    [t EXCEPT !.samples = Append(@, [mv |-> mv, select |-> t.regs[7][4] % 16,
                                     enabled |-> BitOf(t.regs[7][4], 6),
                                     after |-> Len(t.sub)])]

\* the result of readAnalogOutput
Output(num, den) ==
    [status |-> <<0, 0>>, data |-> NoWord, crc |-> 0, ack |-> 0, error |-> FALSE,
     output |-> <<num, den>>]

\* the cases ANALOG_VOLTAGE_OUTPUT and ANALOG_CURRENT_OUTPUT: reference is
\* the select code of the second sample, gain the factor of the result
readTwoSamples(t, e, value, reference, gain, readings) ==
    ThenDo(enableAnalogOutput(t, e), LAMBDA p0 :
    ThenDo(setAnalogOutput(p0.t, e, value), LAMBDA p1 :
    ThenDo(analogReadMilliVolts(delay(p1.t, 10), readings[1]), LAMBDA t2 :
    ThenDo(setAnalogOutput(t2, e, reference), LAMBDA p3 :
    ThenDo(analogReadMilliVolts(delay(p3.t, 10), readings[2]), LAMBDA t4 :
    ThenDo(disableAnalogOutput(t4, e), LAMBDA p5 :
    [t |-> p5.t, pkt |-> Output(((0 - readings[1]) + readings[2]) * gain, 1000)]))))))

\* the case ANALOG_TEMPERATURE: (voltage - 1.421125) / 0.004715
readOneSample(t, e, value, readings) ==
    ThenDo(enableAnalogOutput(t, e), LAMBDA p0 :
    ThenDo(setAnalogOutput(p0.t, e, value), LAMBDA p1 :
    ThenDo(analogReadMilliVolts(delay(p1.t, 10), readings[1]), LAMBDA t2 :
    ThenDo(disableAnalogOutput(t2, e), LAMBDA p3 :
    [t |-> p3.t, pkt |-> Output(readings[1] * 1000 - 1421125, 4715)]))))

readAnalogOutput(t, e, value, readings) ==
    CASE value = ANALOG_VOLTAGE_OUTPUT -> readTwoSamples(t, e, value, 6, 16, readings)
      [] value = ANALOG_CURRENT_OUTPUT -> readTwoSamples(t, e, value, 7, 8, readings)
      [] value = ANALOG_TEMPERATURE    -> readOneSample(t, e, value, readings)
      [] OTHER                         -> [t |-> t, pkt |-> Output(0, 1)]

(***************************************************************************)
(* getStatus, getCommand (LT8722.cpp).  The uint16_t getStatus returns is  *)
(* a number, the uint32_t getCommand returns a pair <<high, low>> of       *)
(* 16-bit halves.                                                          *)
(***************************************************************************)
\* a | b on 16-bit operands, from bit i upwards
RECURSIVE Or16From(_, _, _)
Or16From(a, b, i) ==
    IF i = 16 THEN 0
    ELSE (IF BitOf(a, i) + BitOf(b, i) > 0 THEN 2^i ELSE 0) + Or16From(a, b, i + 1)

\* (x << 8) | y for two bytes x, y
ShiftOr(x, y) == Or16From((x * 256) % 65536, y, 0)

\* what a getter hands back: the value and nothing of the struct it read
ValueOf(v) ==
    [status |-> <<0, 0>>, data |-> NoWord, crc |-> 0, ack |-> 0, error |-> FALSE, value |-> v]

\* variant: a failed read is reported as the value 0
getStatus_ZeroOnError(rx) ==
    ThenDo(readStatus(rx), LAMBDA r :
        [pkt |-> ValueOf(IF r.pkt.error THEN 0 ELSE ShiftOr(r.pkt.status[1], r.pkt.status[2])),
         bus |-> r.bus, sub |-> <<r.pkt>>])

getStatus(rx) ==
    ThenDo(readStatus(rx), LAMBDA r :
        [pkt |-> ValueOf(ShiftOr(r.pkt.status[1], r.pkt.status[2])),
         bus |-> r.bus, sub |-> <<r.pkt>>])

\* variant: a failed read is reported as the value 0
getCommand_ZeroOnError(rx) ==
    ThenDo(readRegister(0, rx), LAMBDA r :
        [pkt |-> ValueOf(IF r.pkt.error THEN <<0, 0>>
                         ELSE <<ShiftOr(r.pkt.data[1], r.pkt.data[2]),
                                ShiftOr(r.pkt.data[3], r.pkt.data[4])>>),
         bus |-> r.bus, sub |-> <<r.pkt>>])

\* (data[0] << 24) | (data[1] << 16) | (data[2] << 8) | data[3]
getCommand(rx) ==
    ThenDo(readRegister(0, rx), LAMBDA r :
        [pkt |-> ValueOf(<<ShiftOr(r.pkt.data[1], r.pkt.data[2]),
                           ShiftOr(r.pkt.data[3], r.pkt.data[4])>>),
         bus |-> r.bus, sub |-> <<r.pkt>>])

Init ==
    /\ pc = "idle"
    /\ cs = HIGH
    /\ op = Call("begin", 0, NoWord, 0, 0, 0)
    /\ devBefore = NoWord
    /\ devAfter = NoWord
    /\ sub = <<>>
    /\ result = NoResult
    /\ bus = <<>>
    /\ waits = <<>>
    /\ regs = NoRegs
    /\ env = NoEnv
    /\ loc = NoLoc
    /\ samples = <<>>
    /\ history = NoHistory
    /\ callers = NoCallers

\* the operation runs to completion and hands its result to the caller
Effect(call, r, subs, stored) ==
    /\ pc' = "returned"
    /\ op' = call
    /\ result' = r.pkt
    /\ sub' = subs
    /\ bus' = r.bus
    /\ cs' = PinAfter(cs, r.bus)
    /\ devBefore' = stored
    /\ devAfter' = DeviceFrames(stored, Frames(r.bus))
    /\ waits' = <<>>
    /\ regs' = NoRegs
    /\ env' = NoEnv
    /\ loc' = NoLoc
    /\ UNCHANGED <<samples, history, callers>>

ReadStatus ==
    /\ pc = "idle"
    /\ \E rx \in StatusRx :
        LET r == readStatus(rx)
        IN  Effect(Call("readStatus", 1, NoWord, 0, 0, 0), r, <<r.pkt>>, NoWord)

ReadRegister ==
    /\ pc = "idle"
    /\ \E address \in Addresses, stored \in KnownWords :
      \E rx \in ReadRx(stored) :
        LET r == readRegister(address, rx)
        IN  Effect(Call("readRegister", address, NoWord, 0, 0, 0), r, <<r.pkt>>, stored)

WriteRegister ==
    /\ pc = "idle"
    /\ \E address \in Addresses, data \in KnownWords, stored \in KnownWords, rx \in WriteRx :
        LET r == writeRegister(address, data, rx)
        IN  Effect(Call("writeRegister", address, data, 0, 0, 0), r, <<r.pkt>>, stored)

ChangeBitsInRegister ==
    /\ pc = "idle"
    /\ \E address \in RmwAddresses, startBit \in StartBits, numBits \in NumBits,
       value \in Values, stored \in KnownWords :
      /\ InDataArray(startBit, numBits)
      /\ \E rx1 \in RmwReadRx(stored), rx2 \in RmwWriteRx :
           LET r == changeBitsInRegister(address, startBit, numBits, value, rx1, rx2)
           IN  Effect(Call("changeBitsInRegister", address, NoWord, startBit, numBits, value),
                      r, r.sub, stored)

GetStatus ==
    /\ pc = "idle"
    /\ \E rx \in StatusRx :
       \E r \in {getStatus(rx)} :
        Effect(Call("getStatus", 1, NoWord, 0, 0, 0), r, r.sub, NoWord)

GetCommand ==
    /\ pc = "idle"
    /\ \E stored \in KnownWords :
       \E rx \in ReadRx(stored) :
       \E r \in {getCommand(rx)} :
        Effect(Call("getCommand", 0, NoWord, 0, 0, 0), r, r.sub, stored)

\* the caller consumes the result; nothing of the transaction is retained
Return ==
    /\ pc = "returned"
    /\ pc' = "idle"
    /\ op' = Call("none", 0, NoWord, 0, 0, 0)
    /\ devBefore' = NoWord
    /\ devAfter' = NoWord
    /\ sub' = <<>>
    /\ result' = NoResult
    /\ bus' = <<>>
    /\ waits' = <<>>
    /\ regs' = NoRegs
    /\ env' = NoEnv
    /\ loc' = NoLoc
    /\ samples' = <<>>
    /\ UNCHANGED <<cs, history, callers>>

Next ==
    \/ ReadStatus \/ ReadRegister \/ WriteRegister \/ ChangeBitsInRegister
    \/ GetStatus \/ GetCommand
    \/ Return

Spec == Init /\ [][Next]_vars

(***************************************************************************)
(* State machine of the controller: softStart, reset, powerOff,            *)
(* setVoltage, and the output-voltage operations they are built from.      *)
(* rampOutputVoltage takes one step per pass of its loop.                  *)
(***************************************************************************)

Environments(frames) ==
    {[NoEnv EXCEPT !.conv = c] : c \in Conversions}
    \cup {[NoEnv EXCEPT !.at = a, !.len = n, !.kind = k, !.conv = c] :
            a \in frames, n \in 1..MaxBurst, k \in Faults, c \in Conversions}

\* environments in which no out-of-range conversion is made
Transmissions(frames) == {e \in Environments(frames) : e.conv = "wrap"}

\* values handed to setCommandRegister: 1111 0101 and 0000 1010
FieldValues == {245, 10}

\* transactions of softStart at which a burst may start
SoftStartFrames == {1, 2, 4, 5, 8, 10, 134, 135, 137, 138}

\* DAC voltages handed to setOutputVoltage: 1.25, its neighbours, whole and
\* fractional numbers of DAC steps on both sides, 2.5, 0 and -1.25
DacVoltages ==
    {MidScale, MidScale - 1, MidScale + 1, MidScale - 625, MidScale + 625,
     MidScale + 640, MidScale - 2000, 2 * MidScale, 0, 0 - MidScale}

\* output voltages handed to setVoltage, whole numbers of millivolts
OutputVoltages == {0, 16, 0 - 16, 2 * Volt, 0 - (2 * Volt), 20 * Volt}

\* <<start, end, stepSize, duration>> handed to rampOutputVoltage
RampCalls ==
    {<<2 * MidScale, MidScale, Volt \div 100, 20>>,
     <<3 * Volt, 3 * Volt, Volt \div 100, 5>>,
     <<3 * Volt, 3 * Volt, 0, 5>>,
     <<2 * MidScale, MidScale, 0, 20>>,
     <<Volt, MidScale, Volt \div 10, 20>>,
     <<Volt, Volt + (Volt \div 5), Volt \div 10, 20>>,
     <<MidScale, Volt, Volt \div 10, 7>>,
     <<MidScale + 320, MidScale - 320, Volt \div 100, 8>>}

Begun(address, word) ==
    [cs |-> cs, bus |-> <<>>, sub |-> <<>>, waits |-> <<>>, samples |-> <<>>,
     regs |-> RegsWith(address, word)]

Here == [cs |-> cs, bus |-> bus, sub |-> sub, waits |-> waits, samples |-> samples, regs |-> regs]

Becomes(t) ==
    /\ cs' = t.cs
    /\ bus' = t.bus
    /\ sub' = t.sub
    /\ waits' = t.waits
    /\ regs' = t.regs
    /\ samples' = t.samples
    /\ UNCHANGED <<history, callers>>

\* the operation hands its result to the caller
Finish(call, word, r, e, l) ==
    /\ pc' = "returned"
    /\ op' = call
    /\ result' = r.pkt
    /\ Becomes(r.t)
    /\ env' = e
    /\ loc' = l
    /\ devBefore' = word
    /\ devAfter' = r.t.regs[call.address]

\* the operation is entered and has not made a transaction yet
Enter(position, call, word, e, l) ==
    /\ pc' = position
    /\ op' = call
    /\ result' = NoResult
    /\ Becomes(Begun(call.address, word))
    /\ env' = e
    /\ loc' = l
    /\ devBefore' = word
    /\ devAfter' = word

SetOutputVoltage ==
    /\ pc = "idle"
    /\ \E voltage \in DacVoltages, e \in Environments(1..1) :
       \E r \in {setOutputVoltage(Begun(4, NoWord), e, voltage)} :
        Finish(Call("setOutputVoltage", 4, NoWord, 0, 0, voltage), NoWord, r, e, NoLoc)

SetVoltage ==
    /\ pc = "idle"
    /\ \E voltage \in OutputVoltages, e \in Environments(1..1) :
       \E r \in {setVoltage(Begun(4, NoWord), e, voltage)} :
        Finish(Call("setVoltage", 4, NoWord, 0, 0, voltage), NoWord, r, e, NoLoc)

\* entry of rampOutputVoltage
RampCall ==
    /\ pc = "idle"
    /\ \E c \in RampCalls, word \in KnownWords, e \in Environments(1..MaxFault) :
        Enter("ramp", Call("rampOutputVoltage", 4, NoWord, 0, 0, 0), word, e,
              [NoLoc EXCEPT !.ramp = rampLocals(c[1], c[2], c[3], c[4])])

\* one pass of the loop of rampOutputVoltage, called directly or by softStart
RampPass ==
    /\ pc \in {"ramp", "softStart ramp"}
    /\ rampContinues(loc.ramp)
    /\ loc.ramp.i < MaxPasses
    /\ \E pass \in {rampPass(Here, env, loc.ramp)} :
        /\ Becomes(pass.t)
        /\ loc' = [loc EXCEPT !.ramp = pass.l]
        /\ devAfter' = pass.t.regs[op.address]
    /\ UNCHANGED <<pc, op, env, devBefore, result>>

\* the loop of rampOutputVoltage is left and the register is read
RampReturn ==
    /\ pc = "ramp"
    /\ ~rampContinues(loc.ramp)
    /\ \E r \in {rampReturn(Here, env)} : Finish(op, devBefore, r, env, loc)

\* entry of softStart
SoftStartCall ==
    /\ pc = "idle"
    /\ \E word \in KnownWords, e \in Environments(SoftStartFrames) :
        Enter("softStart", Call("softStart", 0, NoWord, 0, 0, 0), word, e, NoLoc)

\* one statement of softStart other than the ramp
SoftStartLine ==
    /\ pc = "softStart"
    /\ loc.line \in {0, 1, 2, 3, 4, 6, 7}
    /\ \E r \in {softStartLine(loc.line, Here, env, NoResult)} :
        /\ Becomes(r.t)
        /\ loc' = [loc EXCEPT !.line = @ + 1, !.errors = Append(@, r.pkt.error)]
        /\ devAfter' = r.t.regs[op.address]
    /\ UNCHANGED <<pc, op, env, devBefore, result>>

\* softStart calls rampOutputVoltage(2.5, 1.25, 0.01, 20)
SoftStartRampCall ==
    /\ pc = "softStart"
    /\ loc.line = 5
    /\ pc' = "softStart ramp"
    /\ loc' = [loc EXCEPT !.ramp = softStartRamp]
    /\ UNCHANGED <<cs, op, devBefore, devAfter, sub, result, bus, waits, regs, env,
                   samples, history, callers>>

\* the ramp returns to softStart
SoftStartRampReturn ==
    /\ pc = "softStart ramp"
    /\ ~rampContinues(loc.ramp)
    /\ \E r \in {rampReturn(Here, env)} :
        /\ Becomes(r.t)
        /\ loc' = [loc EXCEPT !.line = @ + 1, !.errors = Append(@, r.pkt.error)]
    /\ pc' = "softStart"
    /\ UNCHANGED <<op, env, devBefore, devAfter, result>>

\* return of softStart
SoftStartReturn ==
    /\ pc = "softStart"
    /\ loc.line = 8
    /\ Finish(op, devBefore, [t |-> Here, pkt |-> Flag(softStartError(loc.errors))], env, loc)

Reset ==
    /\ pc = "idle"
    /\ \E word \in KnownWords, e \in Environments(1..(MaxFault + 1)) :
       \E r \in {reset(Begun(0, word), e, NoResult)} :
        Finish(Call("reset", 0, NoWord, 0, 0, 0), word, r, e, NoLoc)

ResetRegisters ==
    /\ pc = "idle"
    /\ \E word \in KnownWords, e \in Environments(1..(MaxFault + 1)) :
       \E r \in {resetRegisters(Begun(0, word), e, NoResult)} :
        Finish(Call("resetRegisters", 0, NoWord, 0, 0, 0), word, r, e, NoLoc)

PowerOff ==
    /\ pc = "idle"
    /\ \E word \in KnownWords, e \in Environments(1..(MaxFault + 1)) :
       \E r \in {powerOff(Begun(0, word), e, NoResult)} :
        Finish(Call("powerOff", 0, NoWord, 0, 0, 0), word, r, e, NoLoc)

\* LT8722::begin
Begin ==
    /\ pc = "idle"
    /\ \E word \in KnownWords, e \in Transmissions(1..(MaxFault + 1)) :
       \E r \in {begin(Begun(0, word), e, NoResult)} :
        Finish(Call("begin", 0, NoWord, 0, 0, 0), word, r, e, NoLoc)

\* a setter of a field of the command register has run
Set(name, word, value, e, r) ==
    Finish(Call(name, 0, NoWord, 0, 0, value), word, r, e, NoLoc)

SetPWMFreq ==
    /\ pc = "idle"
    /\ \E word \in KnownWords, value \in FieldValues, e \in Transmissions(1..2) :
       \E r \in {setPWMFreq(Begun(0, word), e, value, NoResult)} :
        Set("setPWMFreq", word, value, e, r)

SetPWMAdjust ==
    /\ pc = "idle"
    /\ \E word \in KnownWords, value \in FieldValues, e \in Transmissions(1..2) :
       \E r \in {setPWMAdjust(Begun(0, word), e, value, NoResult)} :
        Set("setPWMAdjust", word, value, e, r)

SetPWMDutyCycle ==
    /\ pc = "idle"
    /\ \E word \in KnownWords, value \in FieldValues, e \in Transmissions(1..2) :
       \E r \in {setPWMDutyCycle(Begun(0, word), e, value, NoResult)} :
        Set("setPWMDutyCycle", word, value, e, r)

SetLDOVoltage ==
    /\ pc = "idle"
    /\ \E word \in KnownWords, value \in FieldValues, e \in Transmissions(1..2) :
       \E r \in {setLDOVoltage(Begun(0, word), e, value, NoResult)} :
        Set("setLDOVoltage", word, value, e, r)

SetPeakInductor ==
    /\ pc = "idle"
    /\ \E word \in KnownWords, value \in FieldValues, e \in Transmissions(1..2) :
       \E r \in {setPeakInductor(Begun(0, word), e, value, NoResult)} :
        Set("setPeakInductor", word, value, e, r)

SetPowerLimit ==
    /\ pc = "idle"
    /\ \E word \in KnownWords, value \in FieldValues, e \in Transmissions(1..2) :
       \E r \in {setPowerLimit(Begun(0, word), e, value, NoResult)} :
        Set("setPowerLimit", word, value, e, r)

\* limit arguments: the sixteen 4-bit codes and a byte above them
LimitCodes == (0..15) \cup {245}

SetPositiveVoltageLimit ==
    /\ pc = "idle"
    /\ \E limit \in LimitCodes, e \in Transmissions(1..1) :
       \E r \in {setPositiveVoltageLimit(Begun(5, NoWord), e, limit)} :
        Finish(Call("setPositiveVoltageLimit", 5, NoWord, 0, 0, limit), NoWord, r, e, NoLoc)

SetNegativeVoltageLimit ==
    /\ pc = "idle"
    /\ \E limit \in LimitCodes, e \in Transmissions(1..1) :
       \E r \in {setNegativeVoltageLimit(Begun(6, NoWord), e, limit)} :
        Finish(Call("setNegativeVoltageLimit", 6, NoWord, 0, 0, limit), NoWord, r, e, NoLoc)

\* current limits in milliamperes: the ends of the range, values whose
\* quotient is whole (6.468 for the positive, 3.32 for the negative limit)
\* and fractional, one below and one above the range
CurrentLimits == {0, 1000, 3320, 3400, 6468, 6790, FullScale, 0 - 100, 7000}

\* environments of a conversion from floating point
Arithmetics ==
    {[e EXCEPT !.round = r, !.conv = c] :
        e \in Transmissions(1..1), r \in Roundings, c \in Conversions}

SetPositiveCurrentLimit ==
    /\ pc = "idle"
    /\ \E limit \in CurrentLimits, e \in Arithmetics :
       \E r \in {setPositiveCurrentLimit(Begun(3, NoWord), e, limit)} :
        Finish(Call("setPositiveCurrentLimit", 3, NoWord, 0, 0, limit), NoWord, r, e, NoLoc)

SetNegativeCurrentLimit ==
    /\ pc = "idle"
    /\ \E limit \in CurrentLimits, e \in Arithmetics :
       \E r \in {setNegativeCurrentLimit(Begun(2, NoWord), e, limit)} :
        Finish(Call("setNegativeCurrentLimit", 2, NoWord, 0, 0, limit), NoWord, r, e, NoLoc)

\* what the analog input reads, in millivolts
Readings == {1000, 1250, 1650}

\* arguments of readAnalogOutput: the three monitors and a value that is none
MonitorValues == {ANALOG_VOLTAGE_OUTPUT, ANALOG_CURRENT_OUTPUT, ANALOG_TEMPERATURE, 0}

ReadAnalogOutput ==
    /\ pc = "idle"
    /\ \E value \in MonitorValues, readings \in Readings \X Readings, word \in KnownWords,
          e \in Transmissions(1..MaxFault) :
       \E r \in {readAnalogOutput(Begun(7, word), e, value, readings)} :
        Finish(Call("readAnalogOutput", 7, NoWord, 0, 0, value), word, r, e, NoLoc)

DriverNext ==
    \/ SetOutputVoltage \/ SetVoltage
    \/ RampCall \/ RampPass \/ RampReturn
    \/ SoftStartCall \/ SoftStartLine \/ SoftStartRampCall \/ SoftStartRampReturn
    \/ SoftStartReturn
    \/ ResetRegisters \/ Reset \/ PowerOff
    \/ SetPositiveVoltageLimit \/ SetNegativeVoltageLimit
    \/ SetPositiveCurrentLimit \/ SetNegativeCurrentLimit
    \/ ReadAnalogOutput
    \/ Begin
    \/ SetPWMFreq \/ SetPWMAdjust \/ SetPWMDutyCycle \/ SetLDOVoltage \/ SetPeakInductor
    \/ SetPowerLimit
    \/ Return

DriverSpec == Init /\ [][DriverNext]_vars

(***************************************************************************)
(* Calls made one after the other on one device: every call of             *)
(* setCommandRegister runs to completion before the next one starts, and   *)
(* the device keeps its registers between the calls.  history records the  *)
(* content of the command register before the first call, the value last   *)
(* handed to setCommandRegister for each symbol (-1: none) and whether     *)
(* every call so far returned without error.                               *)
(***************************************************************************)
CommandSymbols == DOMAIN CommandBits

\* a symbol that is none of the enumerators of COMMAND_REG
NoSymbol == 3

\* symbols handed to setCommandRegister that are no enumerator: one between
\* the enumerators and one above them
NoSymbols == {NoSymbol, 16}

\* the answers to the two transactions of one call: both intact, the read
\* not acknowledged, the answer to the write with a wrong CRC
CallFaults ==
    {NoEnv, [NoEnv EXCEPT !.at = 1], [NoEnv EXCEPT !.at = 2, !.kind = "crc"]}

\* what the uninitialised dataPacket of the default branch may hold
Junk ==
    {NoResult,
     [status |-> <<255, 255>>, data |-> <<255, 255, 255, 255>>, crc |-> 255, ack |-> 165,
      error |-> FALSE]}

SequenceInit ==
    \E word \in KnownWords :
        /\ pc = "idle"
        /\ cs = HIGH
        /\ op = Call("begin", 0, NoWord, 0, 0, 0)
        /\ devBefore = word
        /\ devAfter = word
        /\ sub = <<>>
        /\ result = NoResult
        /\ bus = <<>>
        /\ waits = <<>>
        /\ regs = [RegsWith(0, word) EXCEPT ![7] = word]
        /\ env = NoEnv
        /\ loc = NoLoc
        /\ samples = <<>>
        /\ history = [NoHistory EXCEPT !.last = [s \in CommandSymbols |-> 0 - 1],
                                        !.initial = word]
        /\ callers = NoCallers

\* one call of setCommandRegister from its entry to its return
SetCommandRegister ==
    /\ pc = "idle"
    /\ history.calls < MaxCalls
    /\ \E symbol \in CommandSymbols \cup NoSymbols, value \in FieldValues,
          e \in CallFaults, junk \in Junk :
      /\ symbol \in NoSymbols \/ junk = NoResult
      /\ symbol \in NoSymbols => e = NoEnv
      /\ \E r \in {setCommandRegister([Here EXCEPT !.bus = <<>>, !.sub = <<>>], e, symbol, value, junk)} :
        /\ pc' = "returned"
        /\ op' = Call("setCommandRegister", 0, NoWord, symbol, 0, value)
        /\ result' = r.pkt
        /\ cs' = r.t.cs
        /\ bus' = r.t.bus
        /\ sub' = r.t.sub
        /\ waits' = r.t.waits
        /\ regs' = r.t.regs
        /\ env' = e
        /\ devBefore' = regs[0]
        /\ devAfter' = r.t.regs[0]
        /\ history' = [history EXCEPT
                           !.calls = @ + 1,
                           !.clean = @ /\ ~r.pkt.error,
                           !.last = IF symbol \in CommandSymbols
                                    THEN [@ EXCEPT ![symbol] = value] ELSE @]
        /\ UNCHANGED <<loc, samples, callers>>

\* one call of a function that changes bits of the analog register, from
\* its entry to its return
AnalogCall(call, e, r) ==
    /\ pc' = "returned"
    /\ op' = call
    /\ result' = r.pkt
    /\ cs' = r.t.cs
    /\ bus' = r.t.bus
    /\ sub' = r.t.sub
    /\ waits' = r.t.waits
    /\ regs' = r.t.regs
    /\ env' = e
    /\ devBefore' = regs[7]
    /\ devAfter' = r.t.regs[7]
    /\ history' = [history EXCEPT !.calls = @ + 1, !.clean = @ /\ ~r.pkt.error]
    /\ UNCHANGED <<loc, samples, callers>>

EnableAnalogOutput ==
    /\ pc = "idle"
    /\ history.calls < MaxCalls
    /\ \E e \in CallFaults :
       \E r \in {enableAnalogOutput([Here EXCEPT !.bus = <<>>, !.sub = <<>>], e)} :
        AnalogCall(Call("enableAnalogOutput", 7, NoWord, 6, 1, 1), e, r)

DisableAnalogOutput ==
    /\ pc = "idle"
    /\ history.calls < MaxCalls
    /\ \E e \in CallFaults :
       \E r \in {disableAnalogOutput([Here EXCEPT !.bus = <<>>, !.sub = <<>>], e)} :
        AnalogCall(Call("disableAnalogOutput", 7, NoWord, 6, 1, 0), e, r)

SetAnalogOutput ==
    /\ pc = "idle"
    /\ history.calls < MaxCalls
    /\ \E value \in FieldValues, e \in CallFaults :
       \E r \in {setAnalogOutput([Here EXCEPT !.bus = <<>>, !.sub = <<>>], e, value)} :
        AnalogCall(Call("setAnalogOutput", 7, NoWord, 0, 4, value), e, r)

\* the caller takes the result; the device keeps its registers
Resume ==
    /\ pc = "returned"
    /\ pc' = "idle"
    /\ op' = Call("none", 0, NoWord, 0, 0, 0)
    /\ result' = NoResult
    /\ sub' = <<>>
    /\ bus' = <<>>
    /\ env' = NoEnv
    /\ UNCHANGED <<cs, devBefore, devAfter, waits, regs, loc, samples, history, callers>>

SequenceNext ==
    \/ SetCommandRegister
    \/ EnableAnalogOutput \/ DisableAnalogOutput \/ SetAnalogOutput
    \/ Resume

SequenceSpec == SequenceInit /\ [][SequenceNext]_vars

(***************************************************************************)
(* Two callers of changeBitsInRegister on one device, without a lock.      *)
(* A bus transaction is not interrupted, but the calling context may be    *)
(* switched between the read and the write of a call.  history.events is   *)
(* the order in which the transactions were made.                          *)
(***************************************************************************)
Callers == {1, 2}

NoCall == [pc |-> "idle", address |-> 0, startBit |-> 0, numBits |-> 0, value |-> 0,
           pkt |-> NoResult]

\* <<address, startBit, numBits, value>> of the calls the driver makes:
\* enable-request, switch-enable-request, frequency-set, analog-output
\* enable, analog-output select
SharedCalls ==
    {<<0, 0, 1, 1>>, <<0, 1, 1, 1>>, <<0, 2, 3, 5>>, <<7, 6, 1, 1>>, <<7, 0, 4, 6>>}

\* the answer to one transaction arrives intact or with a wrong CRC
SharedFaults == {"none", "crc"}

SharedInit ==
    \E word \in KnownWords :
        /\ pc = "idle"
        /\ cs = HIGH
        /\ op = Call("begin", 0, NoWord, 0, 0, 0)
        /\ devBefore = word
        /\ devAfter = word
        /\ sub = <<>>
        /\ result = NoResult
        /\ bus = <<>>
        /\ waits = <<>>
        /\ regs = [a \in Registers |-> word]
        /\ env = NoEnv
        /\ loc = NoLoc
        /\ samples = <<>>
        /\ history = [NoHistory EXCEPT !.initial = word]
        /\ callers = [c \in Callers |-> NoCall]

\* a transaction of caller c has been made
SharedStep(c, kind, r, address, call) ==
    /\ cs' = PinAfter(cs, r.bus)
    /\ bus' = bus \o r.bus
    /\ sub' = Append(sub, r.pkt)
    /\ regs' = [regs EXCEPT ![address] = DeviceFrames(@, Frames(r.bus))]
    /\ callers' = [callers EXCEPT ![c] = call]
    /\ history' = [history EXCEPT !.events = Append(@, <<c, kind>>),
                                  !.clean = @ /\ ~r.pkt.error]
    /\ UNCHANGED <<pc, op, devBefore, devAfter, result, waits, env, loc, samples>>

\* caller c enters changeBitsInRegister and makes its read
CallerRead(c) ==
    /\ callers[c].pc = "idle"
    /\ \E call \in SharedCalls, fault \in SharedFaults :
       \E r \in {readRegister(call[1], AnswerRead(regs[call[1]], fault))} :
        SharedStep(c, "read", r, call[1],
                   [pc |-> "read", address |-> call[1], startBit |-> call[2],
                    numBits |-> call[3], value |-> call[4], pkt |-> r.pkt])

\* caller c changes the bits in the word it read, makes its write and returns
CallerWrite(c) ==
    /\ callers[c].pc = "read"
    /\ \E fault \in SharedFaults :
       \E r \in {changeBitsAfterRead(callers[c].address, callers[c].startBit,
                                     callers[c].numBits, callers[c].value, callers[c].pkt,
                                     AnswerWrite(fault), regs[callers[c].address])} :
        SharedStep(c, "write", r, callers[c].address,
                   [callers[c] EXCEPT !.pc = "done", !.pkt = r.pkt])

SharedNext == \E c \in Callers : CallerRead(c) \/ CallerWrite(c)

SharedSpec == SharedInit /\ [][SharedNext]_vars

TypeOK ==
    /\ cs \in {LOW, HIGH}
    /\ result.error \in BOOLEAN
    /\ result.ack \in Byte /\ result.crc \in Byte
    /\ \A i \in 1..4 : result.data[i] \in Byte

(***************************************************************************)
(* Observations used by the properties below.                              *)
(***************************************************************************)
IsXfer(e) == e.ev = "xfer"

\* the byte exchanges of the last operation, in bus order
Exchanges == SelectSeq(bus, IsXfer)
BusOut == [i \in 1..Len(Exchanges) |-> Exchanges[i].out]
BusIn  == [i \in 1..Len(Exchanges) |-> Exchanges[i].in]

Returned(name) == pc = "returned" /\ op.name = name

AccessorReturned ==
    Returned("readStatus") \/ Returned("readRegister") \/ Returned("writeRegister")

\* C1: in readStatus, readRegister and writeRegister a byte other than 0xA5
\* captured at the last frame position gives failed = true, whatever the
\* captured CRC byte is.
C1_BadAckFails ==
    AccessorReturned => (BusIn[Len(BusIn)] # 165 => result.error = TRUE)

\* a register write whose CRC byte is the right one and whose ack is wrong
C1_Witness ==
    /\ Returned("writeRegister")
    /\ BusIn[8] # 165
    /\ BusIn[3] = crc8(<<BusIn[1], BusIn[2]>>)
    /\ result.error = TRUE

\* C2: readRegister reports failed = false exactly when the captured ack is
\* 0xA5 and crc8 over the six captured bytes status[0..1], data[0..3] equals
\* the captured CRC byte.
C2_ReadRegisterFailed ==
    Returned("readRegister") =>
        (result.error = FALSE <=>
            (BusIn[8] = 165 /\ crc8(SubSeq(BusIn, 1, 6)) = BusIn[7]))

\* a register read with the right ack and a wrong CRC byte
C2_Witness ==
    /\ Returned("readRegister")
    /\ BusIn[8] = 165
    /\ crc8(SubSeq(BusIn, 1, 6)) # BusIn[7]
    /\ result.error = TRUE

C4_ReadStatus ==
    Returned("readStatus") =>
        /\ result.error = FALSE <=>
              (BusIn[4] = 165 /\ crc8(<<BusIn[1], BusIn[2]>>) = BusIn[3])
        /\ result.data = <<0, 0, 0, 0>>

\* a failed status read (right ack, wrong CRC) with nonzero status bytes
C4_Witness ==
    /\ Returned("readStatus")
    /\ BusIn[4] = 165
    /\ BusIn[1] # 0
    /\ crc8(<<BusIn[1], BusIn[2]>>) # BusIn[3]
    /\ result.error = TRUE
    /\ result.data = <<0, 0, 0, 0>>

\* C5: chip-select is asserted before the first exchange of a frame, stays
\* asserted through the last one and is deasserted before the operation
\* returns: no byte is exchanged while chip-select is deasserted, and it is
\* deasserted between consecutive frames.
C5_ChipSelect ==
    /\ (pc = "idle" \/ pc = "returned") => cs = HIGH
    /\ pc = "returned" =>
        /\ bus[1] = CsWrite(LOW)
        /\ bus[Len(bus)] = CsWrite(HIGH)
        /\ \A i \in 1..Len(bus) :
             /\ (bus[i].ev = "xfer") =>
                  /\ i > 1 /\ i < Len(bus)
                  /\ bus[i-1].ev = "xfer" \/ bus[i-1] = CsWrite(LOW)
                  /\ bus[i+1].ev = "xfer" \/ bus[i+1] = CsWrite(HIGH)
             /\ (bus[i] = CsWrite(LOW)) =>
                  /\ i = 1 \/ bus[i-1] = CsWrite(HIGH)
                  /\ i < Len(bus) /\ bus[i+1].ev = "xfer"
             /\ (bus[i] = CsWrite(HIGH)) => (i > 1 /\ bus[i-1].ev = "xfer")

\* a read-modify-write: two frames with chip-select released in between
C5_Witness ==
    /\ Returned("changeBitsInRegister")
    /\ Len(Exchanges) = 16
    /\ bus[10] = CsWrite(HIGH)
    /\ bus[11] = CsWrite(LOW)
    /\ cs = HIGH

\* number of chip-select assertions (frames started) in the last operation
FramesStarted == Cardinality({i \in 1..Len(bus) : bus[i] = CsWrite(LOW)})

\* C6: readStatus performs exactly 4 exchanges, readRegister and
\* writeRegister exactly 8, in one frame, whatever the device returns; a
\* failed transaction is not retried.
C6_ExchangeCount ==
    /\ Returned("readStatus") => (Len(Exchanges) = 4 /\ FramesStarted = 1)
    /\ Returned("readRegister") => (Len(Exchanges) = 8 /\ FramesStarted = 1)
    /\ Returned("writeRegister") => (Len(Exchanges) = 8 /\ FramesStarted = 1)

\* a failed register read that was answered with a wrong ack
C6_Witness ==
    /\ Returned("readRegister")
    /\ result.error = TRUE
    /\ BusIn[8] # 165
    /\ Len(Exchanges) = 8

\* C7: the bytes sent are, in order, 0xF0, 0x02, crc8(0xF0, 0x02), 0x00 for a
\* status read; 0xF4, (a<<1)&0xFE, crc8 of those two, five times 0x00 for a
\* read of address a; 0xF2, (a<<1)&0xFE, d0..d3, crc8 of those six, 0x00 for
\* a write of d0..d3 to address a; none depends on a received byte.
C7_BytesSent ==
    /\ Returned("readStatus") =>
         BusOut = <<240, 2, crc8(<<240, 2>>), 0>>
    /\ Returned("readRegister") =>
         BusOut = <<244, (2 * op.address) % 256, crc8(<<244, (2 * op.address) % 256>>),
                    0, 0, 0, 0, 0>>
    /\ Returned("writeRegister") =>
         BusOut = <<242, (2 * op.address) % 256, op.data[1], op.data[2], op.data[3], op.data[4],
                    crc8(<<242, (2 * op.address) % 256,
                           op.data[1], op.data[2], op.data[3], op.data[4]>>),
                    0>>

\* a write of a nonzero word to a nonzero address, answered with nonzero bytes
C7_Witness ==
    /\ Returned("writeRegister")
    /\ op.address = 4
    /\ op.data = <<18, 52, 86, 120>>
    /\ BusIn[1] # 0 /\ BusIn[4] # 0
    /\ BusOut[7] = crc8(<<242, 8, 18, 52, 86, 120>>)

WordBit(w, k) == (w[4 - (k \div 8)] \div (2^(k % 8))) % 2

\* the device answered the read with the word it stored
ReadWasFaithful == <<BusIn[3], BusIn[4], BusIn[5], BusIn[6]>> = devBefore

\* C9: on a device that returns the stored word and stores what it is
\* written, with neither transaction failing, setBits with width 1..4 and
\* offset + width <= 32 leaves the register holding the old word with bits
\* offset .. offset+width-1 replaced by the low width bits of value and
\* every other bit unchanged.
C9_SetBitsReplacesField ==
    (/\ Returned("changeBitsInRegister")
     /\ ReadWasFaithful
     /\ sub[1].error = FALSE /\ sub[2].error = FALSE
     /\ op.numBits \in 1..4 /\ op.startBit + op.numBits <= 32) =>
        \A k \in 0..31 :
            WordBit(devAfter, k) =
                IF k >= op.startBit /\ k < op.startBit + op.numBits
                THEN (op.value \div (2^(k - op.startBit))) % 2
                ELSE WordBit(devBefore, k)

\* offset 15, width 4, value 0101 on the word 0x00000000 gives 0x00028000:
\* the field crosses the boundary between data bytes 2 and 1
C9_Witness ==
    /\ Returned("changeBitsInRegister")
    /\ ReadWasFaithful
    /\ result.error = FALSE
    /\ op.startBit = 15 /\ op.numBits = 4 /\ op.value = 5
    /\ devBefore = <<0, 0, 0, 0>>
    /\ devAfter = <<0, 2, 128, 0>>

\* C10: the result of changeBitsInRegister has failed = true exactly when
\* its read transaction failed or its write transaction failed.
C10_SetBitsFailed ==
    Returned("changeBitsInRegister") =>
        (result.error = TRUE <=> (sub[1].error = TRUE \/ sub[2].error = TRUE))

\* the read passed, the write was answered with the right ack and a wrong CRC
C10_Witness ==
    /\ Returned("changeBitsInRegister")
    /\ sub[1].error = FALSE
    /\ sub[2].ack = 165 /\ sub[2].error = TRUE
    /\ result.error = TRUE

(***************************************************************************)
(* Observations of the controller's operations.  Every transaction of      *)
(* these operations is a frame of eight exchanges between two chip-select  *)
(* edges, so transaction k occupies bus[10 * (k - 1) + 1 .. 10 * k].       *)
(***************************************************************************)
TxCount == Len(sub)
TxByte(k, j) == bus[10 * (k - 1) + 1 + j].out
TxIsWrite(k, address) == TxByte(k, 1) = 242 /\ TxByte(k, 2) = 2 * address
TxIsRead(k, address) == TxByte(k, 1) = 244 /\ TxByte(k, 2) = 2 * address
TxData(k) == <<TxByte(k, 3), TxByte(k, 4), TxByte(k, 5), TxByte(k, 6)>>

\* output-voltage writes issued so far
VoltageWrites == {k \in 1..TxCount : TxIsWrite(k, 4)}

InRamp == op.name = "rampOutputVoltage" /\ pc \in {"ramp", "returned"}

\* C11: softStart, reset and powerOff return true whenever at least one
\* transaction issued during the call failed, the transactions of the
\* first half of resetRegisters and the writes of the ramp included.
C11_EveryFailureReported ==
    (pc = "returned" /\ op.name \in {"softStart", "reset", "powerOff"}) =>
        ((\E k \in 1..TxCount : sub[k].error) => result.error = TRUE)

\* the kind and the register of the k-th of the 138 frames of a softStart
\* on a bus without failures
SoftStartFrame(k) ==
    CASE k \in {1, 3, 6, 136} -> <<244, 0>>
      [] k \in {2, 4, 7, 137} -> <<242, 0>>
      [] k \in {5, 9, 138}    -> <<242, 1>>
      [] k = 8                -> <<242, 4>>
      [] k \in 10..134        -> <<242, 4>>
      [] k = 135              -> <<244, 4>>

\* C12: whichever of its transactions fail, softStart issues the same
\* sequence of frames (kinds, register addresses, number) as on a bus
\* without failures, and what it returns is the failure flag alone.
C12_SoftStartNeverAborts ==
    Returned("softStart") =>
        /\ TxCount = 138
        /\ Len(bus) = 1380
        /\ \A k \in 1..138 : <<TxByte(k, 1), TxByte(k, 2)>> = <<SoftStartFrame(k)[1], 2 * SoftStartFrame(k)[2]>>
        /\ result = [NoResult EXCEPT !.error = result.error]

\* a softStart whose first transaction failed and which ran to its end
C12_Witness ==
    /\ Returned("softStart")
    /\ sub[1].error
    /\ TxCount = 138
    /\ env.at = 1

\* C13 as stated: a ramp with stepSize > 0 issues exactly
\* ceil(|end - start| / stepSize) output-voltage writes before its read.
C13_CeilWrites ==
    (Returned("rampOutputVoltage") /\ loc.ramp.stepSize > 0) =>
        Cardinality(VoltageWrites)
          = (Abs(loc.ramp.end - loc.ramp.start) + loc.ramp.stepSize - 1) \div loc.ramp.stepSize

\* the whole part of steps as the code computes it: that of the quotient of
\* the decimal operands, or one less where that quotient is whole and the
\* quotient of the doubles lies below it
StepsFloor ==
    (Abs(loc.ramp.end - loc.ramp.start) \div loc.ramp.stepSize)
      - (IF stepsBelow(loc.ramp.start, loc.ramp.end, loc.ramp.stepSize) THEN 1 ELSE 0)

\* C13 amended: a ramp with stepSize > 0 issues exactly
\* floor(|end - start| / stepSize) output-voltage writes before its final
\* read, the quotient being the one the code computes in double precision;
\* for ramp(2.5, 1.25, 0.01, 20) that is exactly 125 writes.
C13_FloorWrites ==
    (Returned("rampOutputVoltage") /\ loc.ramp.stepSize > 0) =>
        /\ Cardinality(VoltageWrites) = StepsFloor
        /\ TxIsRead(TxCount, 4)
        /\ VoltageWrites = 1..(TxCount - 1)
        /\ (loc.ramp.start = 40000 /\ loc.ramp.end = 20000 /\ loc.ramp.stepSize = 160)
              => Cardinality(VoltageWrites) = 125

\* ramp(1.0, 1.25, 0.1, 20): the quotient is 2.5 and two writes are issued
C13_Witness ==
    /\ Returned("rampOutputVoltage")
    /\ loc.ramp.start = 16000 /\ loc.ramp.end = 20000 /\ loc.ramp.stepSize = 1600
    /\ Cardinality(VoltageWrites) = 2

\* C14: a ramp called with stepSize = 0 and start # end issues no
\* output-voltage write (and returns).
C14_ZeroStepNoWrites ==
    (InRamp /\ loc.ramp.stepSize = 0 /\ loc.ramp.start # loc.ramp.end) =>
        VoltageWrites = {}

\* C15: a ramp called with start = end requests no delay, issues no
\* output-voltage write and returns: its loop condition is false at entry,
\* and the division by the zero step count yields no fault.
C15_EqualEndsNoWrites ==
    (InRamp /\ loc.ramp.start = loc.ramp.end) =>
        /\ VoltageWrites = {}
        /\ waits = <<>>
        /\ ~rampContinues(loc.ramp)
        /\ loc.ramp.i = 0
        /\ pc = "returned" => (TxCount = 1 /\ TxIsRead(1, 4))

\* ramp(3.0, 3.0, 0.01, 5) has returned
C15_Witness ==
    /\ Returned("rampOutputVoltage")
    /\ loc.ramp.start = 48000 /\ loc.ramp.end = 48000
    /\ loc.ramp.stepSize = 160 /\ loc.ramp.duration = 5
    /\ VoltageWrites = {}
    /\ TxCount = 1

\* the word is the 32-bit code the conversion formula gives for the DAC
\* voltage v: 0 at 1.25 V, the quotient of the distance by the DAC step
\* rounded toward zero below it, 2^32 less that quotient, rounded toward
\* zero, above it.  The quotient of q units is q * 524288 / 625.
IsCodeOf(word, v) ==
    LET q  == Abs(v - 20000)
        a  == q \div 625
        b  == q % 625
        hi == word[1] * 256 + word[2]
        lo == word[3] * 256 + word[4]
        c  == 524288 * a + ((524288 * b) \div 625)
        n  == 524288 * a + ((524288 * b + 624) \div 625)
    IN  CASE v = 20000 -> word = <<0, 0, 0, 0>>
          [] v < 20000 -> hi = c \div 65536 /\ lo = c % 65536
          [] v > 20000 -> /\ (lo + (n % 65536)) % 65536 = 0
                          /\ hi + (n \div 65536) + (IF lo = 0 THEN 0 ELSE 1) = 65536

\* the voltage of the k-th write of the ramp in progress
RampVoltage(k) ==
    IF loc.ramp.start > loc.ramp.end THEN loc.ramp.start - k * loc.ramp.stepSize
                                    ELSE loc.ramp.start + k * loc.ramp.stepSize

\* C16: for stepSize > 0 and start # end the k-th write of a ramp carries
\* the code of start - k * stepSize when start > end and of
\* start + k * stepSize when start < end.
C16_StepCodes ==
    (Returned("rampOutputVoltage") /\ loc.ramp.stepSize > 0 /\ loc.ramp.start # loc.ramp.end) =>
        \A k \in VoltageWrites : IsCodeOf(TxData(k), RampVoltage(k))

\* C17: after each write of a ramp the delay requested is
\* durationMs / steps, so over a whole number of steps the delays requested
\* add up to durationMs.
C17_DelayIsQuotient ==
    (Returned("rampOutputVoltage") /\ loc.ramp.stepSize > 0) =>
        /\ Len(waits) = Cardinality(VoltageWrites)
        /\ \A k \in 1..Len(waits) :
             waits[k].ms * stepsNum(loc.ramp) = loc.ramp.duration * stepsDen(loc.ramp)

\* C18: a ramp issues exactly one read frame of register 4, as its last
\* frame, after the last write and the delay that follows it; what the ramp
\* returns is the result of that read; the read is issued also after zero
\* writes.
C18_FinalRead ==
    Returned("rampOutputVoltage") =>
        /\ TxCount >= 1
        /\ {k \in 1..TxCount : TxIsRead(k, 4)} = {TxCount}
        /\ VoltageWrites = 1..(TxCount - 1)
        /\ Len(waits) = TxCount - 1
        /\ \A k \in 1..Len(waits) : waits[k].after = k
        /\ result = sub[TxCount]
        /\ Len(bus) = 10 * TxCount

\* two writes went well and the final read failed: the ramp reports failure
C18_Witness ==
    /\ Returned("rampOutputVoltage")
    /\ TxCount = 3
    /\ ~sub[1].error /\ ~sub[2].error /\ sub[3].error
    /\ result.error = TRUE
    /\ Len(waits) = 2

\* C19: setOutputVoltage(1.25) writes the word 00 00 00 00 to register 4,
\* and so does setVoltage(0).
C19_MidScaleIsZero ==
    (\/ Returned("setOutputVoltage") /\ op.value = 20000
     \/ Returned("setVoltage") /\ op.value = 0) =>
        /\ TxCount = 1
        /\ TxIsWrite(1, 4)
        /\ TxData(1) = <<0, 0, 0, 0>>

\* C20: for a DAC voltage v # 1.25 setOutputVoltage sends one write frame
\* to register 4 whose four data bytes are, most significant first, the
\* code of v: (v - 1.25) / -(2.5 * 2^-25) truncated below 1.25 and
\* 2^32 - (v - 1.25) / (2.5 * 2^-25) truncated above it.
C20_CodeWritten ==
    (Returned("setOutputVoltage") /\ op.value # 20000) =>
        /\ TxCount = 1
        /\ Len(bus) = 10
        /\ TxIsWrite(1, 4)
        /\ IsCodeOf(TxData(1), op.value)
        /\ op.value = 19999 => TxData(1) = <<0, 0, 3, 70>>
        /\ op.value = 20001 => TxData(1) = <<255, 255, 252, 185>>
        /\ op.value = 40000 => TxData(1) = <<255, 0, 0, 0>>

\* 62.5 microvolts above 1.25 V: the code is 2^32 - 839
C20_Witness ==
    /\ Returned("setOutputVoltage")
    /\ op.value = 20001
    /\ TxData(1) = <<255, 255, 252, 185>>

(***************************************************************************)
(* Observations of the command register.                                   *)
(***************************************************************************)
\* <<bitOffset, bitWidth>> of the nine command fields: enable-request,
\* switch-enable-request, frequency-set, frequency-adjust, duty-cycle,
\* LDO-select, peak-inductor-current, soft-reset, power-limit
FieldTable ==
    {<<0, 1>>, <<1, 1>>, <<2, 3>>, <<5, 2>>, <<7, 2>>, <<9, 1>>, <<11, 3>>, <<14, 1>>,
     <<15, 4>>}

\* bit k lies in field f
InField(f, k) == k >= f[1] /\ k < f[1] + f[2]

\* the content of field f in the word w, as a number
FieldOf(w, f) ==
    LET RECURSIVE Sum(_)
        Sum(i) == IF i = f[2] THEN 0 ELSE WordBit(w, f[1] + i) * (2^i) + Sum(i + 1)
    IN  Sum(0)

\* C21: setCommandRegister(symbol, value) changes in the command register
\* (address 0) exactly the bit range the field table gives for the symbol:
\* the bits of the field become the low bits of value, bits of value above
\* the field width are ignored, and every bit outside the field is left as
\* it was.
C21_FieldOnly ==
    (Returned("setCommandRegister") /\ op.startBit \in CommandSymbols) =>
        \E f \in FieldTable :
            /\ f[1] = op.startBit
            /\ TxCount = 2 /\ TxIsRead(1, 0) /\ TxIsWrite(2, 0)
            /\ \A k \in 0..31 :
                 WordBit(devAfter, k) =
                     IF InField(f, k) THEN (op.value \div (2^(k - f[1]))) % 2
                                      ELSE WordBit(devBefore, k)

\* frequency-set (offset 2, width 3) written with 1111 0101 on the word
\* 0x00000000 gives 0x00000014: bits 5 and 6 of frequency-adjust stay 0
C21_Witness ==
    /\ Returned("setCommandRegister")
    /\ op.startBit = 2 /\ op.value = 245
    /\ devBefore = <<0, 0, 0, 0>>
    /\ devAfter = <<0, 0, 0, 20>>
    /\ result.error = FALSE

\* C23: when every call runs to completion before the next one starts,
\* after any sequence of setCommandRegister calls that all returned without
\* failure, on a device that stores what it is written, each of the nine
\* command fields holds the low bitWidth bits of the value last written to
\* it, or its initial content if it was never written; a call changes no
\* field other than its own.
C23_FieldsHoldLastValue ==
    history.clean =>
        /\ \A f \in FieldTable :
             FieldOf(regs[0], f) =
                 IF history.last[f[1]] = 0 - 1 THEN FieldOf(history.initial, f)
                                               ELSE history.last[f[1]] % (2^f[2])
        /\ Returned("setCommandRegister") =>
             \A f \in FieldTable :
                 f[1] # op.startBit => FieldOf(devAfter, f) = FieldOf(devBefore, f)

\* on the word 0xFFFFFFFF frequency-set was written with 0xF5 and then
\* frequency-adjust with 0x0A: the fields hold 101 and 10, the others ones
C23_Witness ==
    /\ Returned("setCommandRegister")
    /\ history.clean
    /\ history.calls = 2
    /\ history.initial = <<255, 255, 255, 255>>
    /\ history.last[2] = 245 /\ history.last[5] = 10
    /\ op.startBit = 5
    /\ regs[0] = <<255, 255, 255, 215>>

(***************************************************************************)
(* Observations of two callers.                                            *)
(***************************************************************************)
\* both callers have returned, and both reads were made before both writes
ReadsBeforeWrites ==
    /\ \A c \in Callers : callers[c].pc = "done"
    /\ Len(history.events) = 4
    /\ history.events[1][2] = "read" /\ history.events[2][2] = "read"

FirstWriter == callers[history.events[3][1]]
LastWriter == callers[history.events[4][1]]

\* bit k lies in the bit range of the call
InCall(call, k) == k >= call.startBit /\ k < call.startBit + call.numBits

\* C22: two callers run changeBitsInRegister on different bit ranges of the
\* same register without a lock; when both reads are made before both
\* writes, the register ends up with the update of the caller that wrote
\* last only: the bit range of the caller that wrote first holds what it
\* held before the two calls.
C22_LostUpdate ==
    (/\ ReadsBeforeWrites
     /\ FirstWriter.address = LastWriter.address
     /\ FirstWriter.startBit # LastWriter.startBit) =>
        \A k \in 0..31 :
            WordBit(regs[LastWriter.address], k) =
                IF InCall(LastWriter, k)
                THEN (LastWriter.value \div (2^(k - LastWriter.startBit))) % 2
                ELSE WordBit(history.initial, k)

\* on the command word 0x00000000 caller 1 sets enable-request and caller
\* 2 sets switch-enable-request, reads first: both calls return without
\* failure and enable-request is 0
C22_Witness ==
    /\ ReadsBeforeWrites
    /\ history.events = <<<<1, "read">>, <<2, "read">>, <<1, "write">>, <<2, "write">>>>
    /\ history.initial = <<0, 0, 0, 0>>
    /\ callers[1].startBit = 0 /\ callers[1].value = 1 /\ callers[1].address = 0
    /\ callers[2].startBit = 1 /\ callers[2].value = 1 /\ callers[2].address = 0
    /\ ~callers[1].pkt.error /\ ~callers[2].pkt.error
    /\ regs[0] = <<0, 0, 0, 2>>

(***************************************************************************)
(* Limit setters.                                                          *)
(***************************************************************************)
\* C24: for every 4-bit code c, setPositiveVoltageLimit(c) writes the word
\* 00 00 00 c to register 5 and setNegativeVoltageLimit(c) writes
\* 00 00 00 ((~c) & 0x0F), which is 15 - c, to register 6; the derivation
\* applied twice gives c back, and it maps 0x05 to 0x0A.
C24_VoltageLimitWords ==
    /\ (Returned("setPositiveVoltageLimit") /\ op.value \in 0..15) =>
          (TxCount = 1 /\ TxIsWrite(1, 5) /\ TxData(1) = <<0, 0, 0, op.value>>)
    /\ (Returned("setNegativeVoltageLimit") /\ op.value \in 0..15) =>
          /\ TxCount = 1 /\ TxIsWrite(1, 6)
          /\ TxData(1) = <<0, 0, 0, 15 - op.value>>
          /\ TxData(1)[4] = negativeLimit(op.value)
          /\ negativeLimit(TxData(1)[4]) = op.value
          /\ op.value = 5 => TxData(1)[4] = 10

\* setNegativeVoltageLimit(0x05) has written 0x0A to register 6
C24_Witness ==
    /\ Returned("setNegativeVoltageLimit")
    /\ op.value = 5
    /\ TxData(1) = <<0, 0, 0, 10>>
    /\ devAfter = <<0, 0, 0, 10>>

\* C25: for a limit of 0 .. 6.8 A setPositiveCurrentLimit writes to
\* register 3 the word 00 00 hi lo, hi lo being the 16-bit code
\* -((limit - 6.8) / 0.01328) with its fraction discarded, which lies in
\* 0 .. 65535; setNegativeCurrentLimit writes the code limit / 0.01328 in
\* the same way to register 2.
C25_CurrentLimitWords ==
    /\ (Returned("setPositiveCurrentLimit") /\ op.value \in 0..6800) =>
          LET code == ((6800 - op.value) * 25) \div 332
          IN  /\ TxCount = 1 /\ TxIsWrite(1, 3)
              /\ code \in 0..65535
              /\ TxData(1) = <<0, 0, code \div 256, code % 256>>
    /\ (Returned("setNegativeCurrentLimit") /\ op.value \in 0..6800) =>
          LET code == (op.value * 25) \div 332
          IN  /\ TxCount = 1 /\ TxIsWrite(1, 2)
              /\ code \in 0..65535
              /\ TxData(1) = <<0, 0, code \div 256, code % 256>>

(***************************************************************************)
(* Analog monitor.                                                         *)
(***************************************************************************)
\* the select codes under which the samples of the last operation were taken
Selects == [k \in 1..Len(samples) |-> samples[k].select]

\* C26 as stated: each of the three analog readbacks (output voltage,
\* output current, die temperature) takes exactly two analog samples, under
\* two different analog-output-select codes.
C26_TwoSamplesEach ==
    (Returned("readAnalogOutput") /\ op.value \in {3, 4, 8}) =>
        /\ Len(samples) = 2
        /\ samples[1].select # samples[2].select

\* C26 amended: the output-voltage and the output-current readback take
\* exactly two samples, the first under the select code of the monitor (3,
\* 4) and the second under the code of its reference (6, 7), and return
\* their difference times 16 and 8; the die-temperature readback takes
\* exactly one sample, under the code 8, and returns
\* (sample - 1.421125) / 0.004715.  Each sample is taken after the write
\* of its select code.
C26_SamplesPerMonitor ==
    Returned("readAnalogOutput") =>
        /\ op.value = 3 =>
             /\ Selects = <<3, 6>>
             /\ result.output = <<(samples[2].mv - samples[1].mv) * 16, 1000>>
        /\ op.value = 4 =>
             /\ Selects = <<4, 7>>
             /\ result.output = <<(samples[2].mv - samples[1].mv) * 8, 1000>>
        /\ op.value = 8 =>
             /\ Selects = <<8>>
             /\ result.output = <<samples[1].mv * 1000 - 1421125, 4715>>
        /\ \A k \in 1..Len(samples) : samples[k].after = 2 + 2 * k

\* the voltage readback sampled 1.000 V and then 1.250 V: 0.25 V times 16
C26_Witness ==
    /\ Returned("readAnalogOutput")
    /\ op.value = 3
    /\ Len(samples) = 2
    /\ samples[1].mv = 1000 /\ samples[2].mv = 1250
    /\ result.output = <<4000, 1000>>
    /\ TxCount = 8

(***************************************************************************)
(* Status register.                                                        *)
(***************************************************************************)
\* the register-write frames to the status register issued so far
StatusWrites == {k \in 1..TxCount : TxIsWrite(k, 1)}

\* C27 as stated: in any sequence of public operations (begin, softStart,
\* reset, powerOff and the setters) no register-write frame (opcode 0xF2)
\* is ever sent to register address 1.
C27_NoStatusWrite == StatusWrites = {}

\* C27 amended: the setters send no register-write frame to address 1;
\* begin, reset and powerOff each send exactly one, as their last frame,
\* and softStart sends exactly three (frames 5, 9 and 138); every such
\* frame carries the word 00 00 00 00.
C27_StatusWritesAreClears ==
    /\ \A k \in StatusWrites : TxData(k) = <<0, 0, 0, 0>>
    /\ StatusWrites # {} => op.name \in {"begin", "softStart", "reset", "powerOff"}
    /\ pc = "returned" =>
         /\ op.name \in {"begin", "reset"} => StatusWrites = {5} /\ TxCount = 5
         /\ op.name = "powerOff" => StatusWrites = {5} /\ TxCount = 5
         /\ op.name = "softStart" => StatusWrites = {5, 9, 138} /\ TxCount = 138

\* begin has run: two read-modify-writes of the command register and the
\* write of zeros to the status register
C27_Witness ==
    /\ Returned("begin")
    /\ TxCount = 5
    /\ TxIsWrite(5, 1)
    /\ TxData(5) = <<0, 0, 0, 0>>
    /\ TxIsWrite(4, 0)

(***************************************************************************)
(* Frames of changeBitsInRegister.                                         *)
(***************************************************************************)
\* the data bytes captured during the read frame of the last operation
CapturedWord == <<bus[4].in, bus[5].in, bus[6].in, bus[7].in>>

\* C28: changeBitsInRegister always issues exactly one register-read frame
\* followed by exactly one register-write frame to the same address, also
\* when the read failed (bad acknowledgment or CRC); the word it writes is
\* then built from the captured data bytes, which were not validated: it is
\* the captured word with the bits of the range replaced.
C28_ReadThenWrite ==
    Returned("changeBitsInRegister") =>
        /\ TxCount = 2
        /\ Len(bus) = 20
        /\ TxIsRead(1, op.address)
        /\ TxIsWrite(2, op.address)
        /\ \A k \in 0..31 :
             WordBit(TxData(2), k) =
                 IF k >= op.startBit /\ k < op.startBit + op.numBits
                 THEN (op.value \div (2^(k - op.startBit))) % 2
                 ELSE WordBit(CapturedWord, k)

\* the read arrived damaged and was flagged; the write carries the damaged
\* word, and the device now holds it
C28_Witness ==
    /\ Returned("changeBitsInRegister")
    /\ sub[1].error = TRUE
    /\ CapturedWord # devBefore
    /\ op.startBit = 0 /\ op.numBits = 1 /\ op.value = 0
    /\ devBefore = <<0, 0, 0, 0>>
    /\ TxData(2) = <<0, 0, 128, 0>>
    /\ devAfter = <<0, 0, 128, 0>>

(***************************************************************************)
(* Order of the frames of softStart.                                       *)
(***************************************************************************)
\* the data bytes captured during frame k
RxData(k) ==
    <<bus[10 * (k - 1) + 4].in, bus[10 * (k - 1) + 5].in, bus[10 * (k - 1) + 6].in,
      bus[10 * (k - 1) + 7].in>>

\* frame k of softStart has the kind, the register and the content of its
\* place: reset (soft-reset set in frame 2, cleared in frame 4), status
\* clear (5), enable-request set to 1 (7), the code of 2.5 V (8), status
\* clear (9), the ramp's writes of 2.5 - 0.01 * j V (frame 9 + j, j = 1 ..
\* 125; the code of the last one, 1.25 V, is not looked at), the ramp's
\* read (135), switch-enable-request set to 1 (137), status clear (138)
SoftStartFrameInPlace(k) ==
    /\ <<TxByte(k, 1), TxByte(k, 2)>> = <<SoftStartFrame(k)[1], 2 * SoftStartFrame(k)[2]>>
    /\ k = 2 => WordBit(TxData(2), 14) = 1
    /\ k = 4 => WordBit(TxData(4), 14) = 0
    /\ k \in {5, 9, 138} => TxData(k) = <<0, 0, 0, 0>>
    /\ k = 7 => WordBit(TxData(7), 0) = 1
    /\ k = 8 => TxData(8) = <<255, 0, 0, 0>>
    /\ k \in 10..133 => IsCodeOf(TxData(k), 40000 - 160 * (k - 9))
    /\ k = 137 => WordBit(TxData(137), 1) = 1

InSoftStart == op.name = "softStart" /\ pc \in {"softStart", "softStart ramp", "returned"}

\* C29 as stated: the frames of softStart appear in the order reset, status
\* clear, enable-request set, 2.5 V written, status clear, ramp writes,
\* ramp read, switch-enable-request set, status clear; and no frame before
\* the last ramp write (frame 134) writes switch-enable-request as 1, and
\* no output-voltage write precedes the write that sets enable-request
\* (frame 7).
C29_FrameOrder ==
    InSoftStart =>
        /\ TxCount <= 138
        /\ \A k \in 1..TxCount : SoftStartFrameInPlace(k)
        /\ \A k \in 1..TxCount : (k < 134 /\ TxIsWrite(k, 0)) => WordBit(TxData(k), 1) = 0
        /\ \A k \in VoltageWrites : k > 7

\* C29 amended: the same order of frames; no output-voltage write precedes
\* the write that sets enable-request; and no frame before the last ramp
\* write changes switch-enable-request: the writes of the command register
\* before it (frames 2, 4, 7) carry that bit as the read before each of
\* them returned it, and frame 137 is the one that writes it as 1.
C29_FrameOrderKeepingSwitch ==
    InSoftStart =>
        /\ TxCount <= 138
        /\ \A k \in 1..TxCount : SoftStartFrameInPlace(k)
        /\ \A k \in 1..TxCount :
             (k < 134 /\ TxIsWrite(k, 0)) =>
                 (k \in {2, 4, 7} /\ WordBit(TxData(k), 1) = WordBit(RxData(k - 1), 1))
        /\ \A k \in VoltageWrites : k > 7
        /\ pc = "returned" => TxCount = 138

\* a softStart on the command word 0x00000000 without damaged frames:
\* frame 7 writes 0x00000001 and frame 137 writes 0x00000003
C29_Witness ==
    /\ Returned("softStart")
    /\ env.at = 0
    /\ devBefore = <<0, 0, 0, 0>>
    /\ TxCount = 138
    /\ TxData(7) = <<0, 0, 0, 1>>
    /\ TxData(137) = <<0, 0, 0, 3>>
    /\ result.error = FALSE


(***************************************************************************)
(* C30: the voltages of a ramp and its end.                                *)
(***************************************************************************)
\* a ramp is in its loop or has left it, called directly or by softStart
RampEntered ==
    \/ InRamp
    \/ pc = "softStart ramp"
    \/ op.name = "softStart" /\ pc \in {"softStart", "returned"} /\ loc.line >= 6

\* the loop of that ramp has been left
RampLeft ==
    \/ Returned("rampOutputVoltage")
    \/ op.name = "softStart" /\ pc \in {"softStart", "returned"} /\ loc.line >= 6

\* v lies between the start and the end of the ramp, both included
BetweenEnds(v) ==
    IF loc.ramp.start <= loc.ramp.end
    THEN loc.ramp.start <= v /\ v <= loc.ramp.end
    ELSE loc.ramp.end <= v /\ v <= loc.ramp.start

\* C30: for stepSize > 0 every voltage a ramp writes lies between start and
\* end inclusive; if |end - start| is a whole multiple of stepSize the last
\* voltage written equals end, otherwise it stays short of end by less than
\* one stepSize.
C30_RampReachesEnd ==
    (RampEntered /\ loc.ramp.stepSize > 0) =>
        /\ loc.ramp.currentValue = RampVoltage(loc.ramp.i)
        /\ \A k \in 1..loc.ramp.i : BetweenEnds(RampVoltage(k))
        /\ RampLeft =>
              IF stepsNum(loc.ramp) % loc.ramp.stepSize = 0
              THEN loc.ramp.currentValue = loc.ramp.end
              ELSE /\ loc.ramp.currentValue # loc.ramp.end
                   /\ Abs(loc.ramp.end - loc.ramp.currentValue) < loc.ramp.stepSize

\* the part of C30 the code keeps: every voltage written lies between start
\* and end, and the last one is short of end by one stepSize at most
C30_RampWithinEnds ==
    (RampEntered /\ loc.ramp.stepSize > 0) =>
        /\ loc.ramp.currentValue = RampVoltage(loc.ramp.i)
        /\ \A k \in 1..loc.ramp.i : BetweenEnds(RampVoltage(k))
        /\ RampLeft =>
              /\ Abs(loc.ramp.end - loc.ramp.currentValue) <= loc.ramp.stepSize
              /\ ~stepsBelow(loc.ramp.start, loc.ramp.end, loc.ramp.stepSize) =>
                    IF stepsNum(loc.ramp) % loc.ramp.stepSize = 0
                    THEN loc.ramp.currentValue = loc.ramp.end
                    ELSE /\ loc.ramp.currentValue # loc.ramp.end
                         /\ Abs(loc.ramp.end - loc.ramp.currentValue) < loc.ramp.stepSize

\* ramp(1.0, 1.2, 0.1, 20) has returned after one write, of 1.1 V
C30_Witness ==
    /\ Returned("rampOutputVoltage")
    /\ loc.ramp.start = Volt /\ loc.ramp.end = Volt + (Volt \div 5)
    /\ loc.ramp.stepSize = Volt \div 10
    /\ Cardinality(VoltageWrites) = 1
    /\ loc.ramp.currentValue = Volt + (Volt \div 10)
    /\ IsCodeOf(TxData(1), loc.ramp.currentValue)


(***************************************************************************)
(* C31: the bytes the bit loop of changeBitsInRegister changes.            *)
(***************************************************************************)
\* a call of one of the four functions that reach changeBitsInRegister has
\* returned after its read and its write
ThroughChangeBits ==
    /\ pc = "returned"
    /\ op.name \in {"setCommandRegister", "enableAnalogOutput", "disableAnalogOutput",
                    "setAnalogOutput"}
    /\ Len(sub) = 2

\* the number of bits that call hands to changeBitsInRegister
WidthOfCall ==
    IF op.name = "setCommandRegister" THEN CommandBits[op.startBit] ELSE op.numBits

\* C31: for every call reachable through setCommandRegister,
\* enableAnalogOutput, disableAnalogOutput and setAnalogOutput each byte
\* index the bit loop computes lies in 0..3: the status, crc and ack bytes of
\* the result are those the read captured, and the four data bytes are the
\* ones the write sends.
C31_OnlyDataBytes ==
    ThroughChangeBits =>
        /\ InDataArray(op.startBit, WidthOfCall)
        /\ result.status = sub[1].status
        /\ result.crc = sub[1].crc
        /\ result.ack = sub[1].ack
        /\ result.data = TxData(2)

\* setCommandRegister(PWR_LIM, 0xF5) on a command register of zeros: bits
\* 15..18 lie in two data bytes, and nothing else of the result is changed
C31_Witness ==
    /\ ThroughChangeBits
    /\ op.name = "setCommandRegister" /\ op.startBit = PWR_LIM /\ op.value = 245
    /\ sub[1].data = <<0, 0, 0, 0>>
    /\ result.data = <<0, 2, 128, 0>>
    /\ result.status = <<0, 0>> /\ result.ack = ACK
    /\ ~result.error


(***************************************************************************)
(* C32: setCommandRegister with a symbol that is no command field.         *)
(***************************************************************************)
\* the values of a uint8_t symbol that are none of the nine enumerators
NotAField == (0..255) \ CommandSymbols

\* C32: setCommandRegister called with a symbol that is none of the nine
\* command fields (3, 4, 6, 8, 10, 12, 13 or any value above 15) returns a
\* result with error = true and performs no bus transaction: chip-select is
\* not toggled and no byte is exchanged.
C32_NoFieldNoBus ==
    (Returned("setCommandRegister") /\ op.startBit \in NotAField) =>
        /\ result.error
        /\ bus = <<>> /\ sub = <<>>
        /\ cs = HIGH
        /\ devAfter = devBefore
        /\ NotAField = {3, 4, 6, 8, 10, 12, 13} \cup (16..255)
        /\ \A symbol \in NotAField, junk \in Junk :
              setCommandRegister(Here, env, symbol, op.value, junk)
                = [t |-> Here, pkt |-> [junk EXCEPT !.error = TRUE]]

\* after a call that changed the register, a call with symbol 16 returned:
\* what it returns holds an intact acknowledgment and the error flag
C32_Witness ==
    /\ Returned("setCommandRegister")
    /\ op.startBit = 16
    /\ history.calls = 2
    /\ regs[0] # history.initial
    /\ result.ack = ACK /\ result.error
    /\ bus = <<>>

(***************************************************************************)
(* Order of the analog readback.                                           *)
(***************************************************************************)
\* the enable bit (bit 6 of register 7) in the word frame k writes
EnableWritten(k) == BitOf(TxData(k)[4], 6)

\* C33: for each valid selection (3, 4, 8) readAnalogOutput first sets the
\* analog-output enable bit (bit 6 of register 7) by a read-modify-write,
\* then writes the select code to bits 3..0, takes every sample while the
\* device holds the enable bit set, and its last frame is the write that
\* clears the enable bit, so that on a failure-free bus the device holds the
\* bit cleared when the call returns; for any other selection it returns 0
\* with no bus transaction and no sample.
C33_EnabledWhileSampling ==
    Returned("readAnalogOutput") =>
        IF op.value \in {ANALOG_VOLTAGE_OUTPUT, ANALOG_CURRENT_OUTPUT, ANALOG_TEMPERATURE}
        THEN /\ TxCount >= 6
             /\ TxIsRead(1, 7) /\ TxIsWrite(2, 7) /\ EnableWritten(2) = 1
             /\ TxIsRead(3, 7) /\ TxIsWrite(4, 7) /\ TxData(4)[4] % 16 = op.value
             /\ Len(samples) >= 1
             /\ \A k \in 1..Len(samples) :
                    /\ samples[k].after \in 4..(TxCount - 2)
                    /\ samples[k].enabled = 1
             /\ TxIsRead(TxCount - 1, 7)
             /\ TxIsWrite(TxCount, 7) /\ EnableWritten(TxCount) = 0
             /\ \A k \in 3..(TxCount - 2) : TxIsWrite(k, 7) => EnableWritten(k) = 1
             /\ env.at = 0 => BitOf(devAfter[4], 6) = 0
        ELSE /\ result.output = <<0, 1>>
             /\ bus = <<>> /\ sub = <<>> /\ TxCount = 0
             /\ samples = <<>>
             /\ devAfter = devBefore
             /\ \A value \in (0..255) \ {3, 4, 8} :
                    readAnalogOutput(Here, env, value, <<1250, 1650>>)
                        = [t |-> Here, pkt |-> Output(0, 1)]

\* the current readback on a failure-free bus of a device that held the
\* enable bit cleared: both samples were taken with the bit set, and the
\* device holds it cleared and the select code 7 at the return
C33_Witness ==
    /\ Returned("readAnalogOutput")
    /\ op.value = ANALOG_CURRENT_OUTPUT
    /\ env.at = 0
    /\ devBefore = <<0, 0, 0, 0>>
    /\ Len(samples) = 2
    /\ samples[1].enabled = 1 /\ samples[2].enabled = 1
    /\ TxCount = 8
    /\ devAfter = <<0, 0, 0, 7>>

(***************************************************************************)
(* Getters.                                                                *)
(***************************************************************************)
\* the answer whose first n bytes are those of rx, followed by their
\* checksum and the acknowledgment ack
Answered(rx, n, ack) ==
    [k \in 1..(n + 2) |-> IF k <= n THEN rx[k]
                          ELSE IF k = n + 1 THEN crc8(SubSeq(rx, 1, n)) ELSE ack]

\* C34: getStatus returns (status[0] << 8) | status[1] and getCommand the
\* big-endian 32-bit value of data[0..3] of the bytes captured, whether or
\* not the read failed: a read that succeeded and a read that failed after
\* capturing the same bytes return the same value.
C34_ValueOfCapturedBytes ==
    /\ Returned("getStatus") =>
         /\ sub[1].status = <<BusIn[1], BusIn[2]>>
         /\ result.value = sub[1].status[1] * 256 + sub[1].status[2]
         /\ ~getStatus(Answered(BusIn, 2, ACK)).sub[1].error
         /\ getStatus(Answered(BusIn, 2, 0)).sub[1].error
         /\ getStatus(Answered(BusIn, 2, ACK)).pkt.value = result.value
         /\ getStatus(Answered(BusIn, 2, 0)).pkt.value = result.value
    /\ Returned("getCommand") =>
         /\ sub[1].data = <<BusIn[3], BusIn[4], BusIn[5], BusIn[6]>>
         /\ result.value = <<sub[1].data[1] * 256 + sub[1].data[2],
                             sub[1].data[3] * 256 + sub[1].data[4]>>
         /\ ~getCommand(Answered(BusIn, 6, ACK)).sub[1].error
         /\ getCommand(Answered(BusIn, 6, 0)).sub[1].error
         /\ getCommand(Answered(BusIn, 6, ACK)).pkt.value = result.value
         /\ getCommand(Answered(BusIn, 6, 0)).pkt.value = result.value

\* a read of the command register that failed (no acknowledgment) after
\* capturing FF FF FF FF returned 0xFFFFFFFF
C34_Witness ==
    /\ Returned("getCommand")
    /\ sub[1].error
    /\ sub[1].ack = 0
    /\ sub[1].data = <<255, 255, 255, 255>>
    /\ result.value = <<65535, 65535>>

(***************************************************************************)
(* Codes on the two sides of 1.25 V.                                       *)
(***************************************************************************)
\* the uint32_t, as <<high, low>>, that the four bytes of word are
Halves(word) == <<word[1] * 256 + word[2], word[3] * 256 + word[4]>>

\* the 32-bit two's-complement negation of h
Negated(h) ==
    <<(65535 - h[1] + (IF h[2] = 0 THEN 1 ELSE 0)) % 65536, (65536 - h[2]) % 65536>>

\* h - 1 in 32 bits
Before(h) == IF h[2] = 0 THEN <<(h[1] + 65535) % 65536, 65535>> ELSE <<h[1], h[2] - 1>>

\* the word setOutputVoltage writes for the voltage as far below 1.25 V as
\* the voltage of the last call lies above it
MirrorWord == setOutputVoltage(Begun(4, NoWord), env, 2 * MidScale - op.value).t.regs[4]

\* C35 as stated: for every d > 0 the code setOutputVoltage writes for
\* 1.25 + d is the 32-bit two's-complement negation of the code it writes
\* for 1.25 - d, also when d is not a whole multiple of the DAC step.
C35_NegatedCode ==
    (Returned("setOutputVoltage") /\ op.value > MidScale) =>
        Halves(TxData(1)) = Negated(Halves(MirrorWord))

\* C35 amended: the code written for 1.25 + d is the two's-complement
\* negation of the code written for 1.25 - d when d is a whole multiple of
\* the DAC step, and that negation less one when it is not: the quotient is
\* truncated below 1.25 V, and 2^32 less the quotient is truncated above it.
C35_NegatedOrOneLess ==
    (Returned("setOutputVoltage") /\ op.value > MidScale) =>
        Halves(TxData(1)) =
            IF (op.value - MidScale) % 625 = 0
            THEN Negated(Halves(MirrorWord))
            ELSE Before(Negated(Halves(MirrorWord)))

\* 62.5 microvolts: 838 is written below 1.25 V and 2^32 - 839 above it
C35_Witness ==
    /\ Returned("setOutputVoltage")
    /\ op.value = MidScale + 1
    /\ Halves(MirrorWord) = <<0, 838>>
    /\ Halves(TxData(1)) = <<65535, 64697>>
    /\ Negated(Halves(MirrorWord)) = <<65535, 64698>>

(***************************************************************************)
(* Order of the frames of resetRegisters and powerOff.                     *)
(***************************************************************************)
\* frames k and k + 1 are a read of the command register and the write of
\* the word captured with the bit set to v
RmwPair(k, bit, v) ==
    /\ TxIsRead(k, 0)
    /\ TxIsWrite(k + 1, 0)
    /\ \A j \in 0..31 :
         WordBit(TxData(k + 1), j) = IF j = bit THEN v ELSE WordBit(RxData(k), j)

\* C36: resetRegisters issues two read-modify-write pairs on the command
\* register, the first writing bit 14 as 1 and the second as 0, and returns
\* the result of the second pair only; powerOff clears enable-request
\* (bit 0), then switch-enable-request (bit 1), then writes zeros to the
\* status register.
C36_FrameOrder ==
    /\ Returned("resetRegisters") =>
         /\ TxCount = 4
         /\ RmwPair(1, 14, 1)
         /\ RmwPair(3, 14, 0)
         /\ result.status = sub[3].status
         /\ result.data = TxData(4)
         /\ result.crc = sub[3].crc
         /\ result.ack = sub[3].ack
         /\ result.error = (sub[3].error \/ sub[4].error)
    /\ Returned("powerOff") =>
         /\ TxCount = 5
         /\ RmwPair(1, 0, 0)
         /\ RmwPair(3, 1, 0)
         /\ TxIsWrite(5, 1)
         /\ TxData(5) = <<0, 0, 0, 0>>

\* the read of the first pair failed and resetRegisters returned no error;
\* the device held all ones and holds them with bit 14 cleared
C36_Witness ==
    /\ Returned("resetRegisters")
    /\ sub[1].error
    /\ ~result.error
    /\ devBefore = <<255, 255, 255, 255>>
    /\ TxData(2) = <<255, 255, 255, 255>>
    /\ devAfter = <<255, 255, 191, 255>>

(***************************************************************************)
(* Address byte of a frame.                                                *)
(***************************************************************************)
\* C37: for every 7-bit address a the second outgoing byte of a
\* register-read or register-write frame is 2 * a, with bit 0 clear, so
\* that two different 7-bit addresses give different frames; an address
\* a >= 128 gives the frame of a - 128.  The address bytes of all 256
\* values of the parameter are compared at the return of each call that
\* succeeded.
C37_AddressByte ==
    (Returned("readRegister") \/ Returned("writeRegister")) =>
        \A sent \in {BusOut} :
            /\ op.address < 128 => sent[2] = 2 * op.address
            /\ op.address >= 128 => sent[2] = 2 * (op.address - 128)
            /\ sent[2] % 2 = 0
            /\ Returned("readRegister") =>
                 sent = readRegisterSent((op.address + 128) % 256)
            /\ Returned("writeRegister") =>
                 sent = writeRegisterSent((op.address + 128) % 256, op.data)
            /\ ~result.error =>
                 \A a \in 0..255 :
                     /\ Tx(readRegisterPacket(a)[2]) = 2 * (a % 128)
                     /\ Tx(writeRegisterPacket(a)[2]) = 2 * (a % 128)
                     /\ (Tx(readRegisterPacket(a)[2]) = sent[2])
                            <=> (a % 128 = op.address % 128)
                     /\ (Tx(writeRegisterPacket(a)[2]) = sent[2])
                            <=> (a % 128 = op.address % 128)

\* a read of address 132 sent the frame of a read of address 4
C37_Witness ==
    /\ Returned("readRegister")
    /\ op.address = 132
    /\ BusOut[1] = 244
    /\ BusOut[2] = 8
    /\ BusOut = readRegisterSent(4)

====
